---- MODULE Spec2Model ----
(***************************************************************************)
(* Model of the concurrent resolution engine of independ:                  *)
(*   - Future / futureMap / SmartWorkPool       (server/pool.go)           *)
(*   - the dependency resolver GatherDependencies (unnamed/part_001)       *)
(***************************************************************************)
EXTENDS Integers, Sequences, FiniteSets, TLC

(***************************************************************************)
(* Bounds of the pool model.                                               *)
(***************************************************************************)
NumKeys == 2
NumCallers == 2
NumWorkers == 1
MaxCalls == 2

Keys == 1..NumKeys
Callers == 1..NumCallers
Workers == 1..NumWorkers

VARIABLES
    cache,        \* the persisted rows behind SmartPerformer.Get / Put
    futures,      \* futureMap.futures: key -> [exists, n, result]
    mapMu,        \* futureMap.m: 0 = unlocked, else the worker holding it
    futMu,        \* Future.m of the registry Future of a key: 0 or a worker
    pc,           \* caller: position inside ProcessKey / Await / AwaitTimeout
    ckey,         \* caller: the key of the current call
    cfut,         \* caller: the Future returned by ProcessKey
    got,          \* caller: the Result returned by Await / AwaitTimeout
    calls,        \* number of ProcessKey calls issued so far, by all callers
    wpc,          \* worker: position inside work / finish / Resolve
    wkey,         \* worker: key pulled from workQueue
    wres,         \* worker: the Result of Perform
    wsends,       \* worker: remaining iterations of the send loop in Resolve
    performCount, \* history: Perform invocations started per key
    putCalled,    \* history: Put was called for the key
    hist,         \* history per caller, taken when the call was issued
    gfut          \* caller inside GatherDependencies: its `futures` slice

poolVars == <<cache, futures, mapMu, futMu, pc, ckey, cfut, got, calls,
              wpc, wkey, wres, wsends, performCount, putCalled, hist,
              gfut>>

VARIABLES
    pkgDeps,      \* registry: package name -> its dependencies map
    pkgDevDeps,   \* registry: package name -> its devDependencies map
    alsoDev,      \* the root call is FilePerformer.Perform's (alsoDev = true)
    versionRaw,   \* the version asked of PackageInfo.GatherDependencies
    latestTag,    \* registry: dist-tags.latest of the packages
    extraVersions,\* registry: keys of the root's versions that are no semver
    fault,        \* registry: the one failing fetch / platform-restricted version
    parent,       \* the aggregate *Version being built
    stack,        \* active GatherDependencies calls, innermost last
    rpc,          \* "idle", "run", "vuln", then "done" (a tree) or "failed" (an error)
    lastEdge,     \* history: how the last processed edge ended
    prev,         \* history: the aggregate of the previous completed resolution
    fetches,      \* history: packagePool.ProcessKey calls of this resolution, per name
    expansions,   \* history: recursive GatherDependencies calls of this resolution
    vulnQuery     \* history: what DbGetVulnerabilitiesForPackages returned

resolveVars == <<pkgDeps, pkgDevDeps, alsoDev, versionRaw, latestTag,
                 extraVersions, fault, parent, stack, rpc,
                 lastEdge, prev, fetches, expansions, vulnQuery>>

VARIABLES
    now,          \* time.Now() inside calcExpire, in seconds
    lastUpdate,   \* the argument of calcExpire, in seconds
    expireTime,   \* the time calcExpire returned
    epc           \* "idle" before the call, "done" after it

expireVars == <<now, lastUpdate, expireTime, epc>>

VARIABLES
    fileRow,      \* the files table row of the uploaded id: <<>> or <<*Version>>
    fileFuture,   \* filePool's registry entry of the id
    fpc,          \* the filePool worker: position in work() for the id
    served        \* what the last GetFile(id) returned

fileVars == <<fileRow, fileFuture, fpc, served>>

VARIABLES
    vulnDb,       \* the ids of the rows of the vulnerabilities table
    upc,          \* UpdateVulnerabilities: position inside the run
    lastKnown,    \* the id DbLastVulnerability returned, 0 for nil
    page,         \* the page number of the run
    vulnPage,     \* the page GetVulnerabilities returned
    idx,          \* position of `range vulnerabilities`
    requested,    \* the pages the run has requested, in order
    putTried,     \* the ids the run has passed to DbPutVulnerability
    stop,         \* why the last run returned
    putFailed,    \* some DbPutVulnerability of a new id has failed
    runs          \* the runs started

feedVars == <<vulnDb, upc, lastKnown, page, vulnPage, idx, requested,
              putTried, stop, putFailed, runs>>

VARIABLES
    clock,        \* time.Now(), in hours
    packageRows,  \* packages table: key -> expire_time, 0 for no row
    versionRows,  \* versions table: key -> expire_time, 0 for no row
    spc,          \* expire(): "idle", or "versions" between its two DELETEs
    sweepNow,     \* the `now` of the running or last expire()
    removed       \* the tables the running or last expire() deleted rows of

sweepVars == <<clock, packageRows, versionRows, spc, sweepNow, removed>>

otherVars == <<fileVars, feedVars, sweepVars>>

vars == <<poolVars, resolveVars, expireVars, otherVars>>

(***************************************************************************)
(* Bounds of the expiry model: the ages tried are the multiples of AgeStep *)
(* up to MaxAgeSteps, each with its two neighbours.                        *)
(***************************************************************************)
MaxAgeSteps == 15000

(***************************************************************************)
(* time.Hour and time.Duration arithmetic, in seconds.                     *)
(***************************************************************************)
Hour == 3600

AgeStep == Hour \div 6

Ages == {k * AgeStep + d : k \in (0 - MaxAgeSteps)..MaxAgeSteps, d \in {0 - 1, 0, 1}}

\* Go's integer division truncates toward zero
DurationDiv(d, n) == IF d >= 0 THEN d \div n ELSE 0 - ((0 - d) \div n)

calcExpire_noLowerClamp(t, last) ==
    LET age == t - last
        expire == DurationDiv(age, 100)
    IN t + (IF expire > 24 * Hour THEN 24 * Hour ELSE expire)

calcExpire_noUpperClamp(t, last) ==
    LET age == t - last
        expire == DurationDiv(age, 100)
    IN t + (IF expire < 1 * Hour THEN Hour ELSE expire)

(***************************************************************************)
(* calcExpire, with time.Now() = t: expire.Hours() < 1 is expire < Hour.   *)
(***************************************************************************)
calcExpire(t, last) ==
    LET age == t - last
        expire == DurationDiv(age, 100)
    IN t + (IF expire < 1 * Hour THEN Hour
            ELSE IF expire > 24 * Hour THEN 24 * Hour
            ELSE expire)

ExpireOff ==
    /\ now = 0
    /\ lastUpdate = 0
    /\ expireTime = 0
    /\ epc = "off"

ExpireInit ==
    /\ now \in {0, 1000 * Hour}
    /\ \E age \in Ages : lastUpdate = now - age
    /\ expireTime = 0
    /\ epc = "idle"

(***************************************************************************)
(* A Put computes the expiry of the row it writes.                         *)
(***************************************************************************)
CalcExpire ==
    /\ epc = "idle"
    /\ expireTime' = calcExpire(now, lastUpdate)
    /\ epc' = "done"
    /\ UNCHANGED <<now, lastUpdate>>
    /\ UNCHANGED <<poolVars, resolveVars, otherVars>>

ExpireNext == CalcExpire

(***************************************************************************)
(* Result{Data, Error}; a nil *Result is the empty sequence, a set one is  *)
(* a one-element sequence.                                                 *)
(***************************************************************************)
Result(d, e) == [Data |-> d, Error |-> e]

TimeoutError == "timeout waiting for future"

PerformResults ==
    {Result("v1", "nil"), Result("nil", "fetch error")}

NewFuture == [exists |-> TRUE, n |-> 0, result |-> <<>>]

NoFuture == [exists |-> FALSE, n |-> 0, result |-> <<>>]

NewFutureResolved(result) == [kind |-> "resolved", result |-> <<result>>]

RegistryFuture == [kind |-> "registry", result |-> <<>>]

NilFuture == [kind |-> "none", result |-> <<>>]

(***************************************************************************)
(* futureMap.finish has returned for the key: the result is set and        *)
(* Resolve has released f.m.                                               *)
(***************************************************************************)
Finished(key) == futures[key].result # <<>> /\ futMu[key] = 0

databaseDisabled_leftOn == TRUE

databaseDisabled == FALSE

Get(key) == cache[key]

NoHist == [afterFinish |-> FALSE]

\* GatherDependencies and its recursive calls in one goroutine: futs is the
\* Futures not yet awaited, those of the innermost call (the first `top`)
\* before those of its callers; join says the innermost call is in its
\* await loop.
NoGather == [futs |-> <<>>, top |-> 0, join |-> FALSE]

PoolStart ==
    /\ futures = [k \in Keys |-> NoFuture]
    /\ mapMu = 0
    /\ futMu = [k \in Keys |-> 0]
    /\ pc = [c \in Callers |-> "idle"]
    /\ ckey = [c \in Callers |-> 1]
    /\ cfut = [c \in Callers |-> NilFuture]
    /\ got = [c \in Callers |-> <<>>]
    /\ calls = 0
    /\ wpc = [w \in Workers |-> "idle"]
    /\ wkey = [w \in Workers |-> 1]
    /\ wres = [w \in Workers |-> <<>>]
    /\ wsends = [w \in Workers |-> 0]
    /\ performCount = [k \in Keys |-> 0]
    /\ putCalled = [k \in Keys |-> FALSE]
    /\ hist = [c \in Callers |-> NoHist]
    /\ gfut = [c \in Callers |-> NoGather]

PoolInit ==
    /\ \E row \in {"nil", "v0"} :
           cache = [k \in Keys |-> IF k = 1 THEN row ELSE "nil"]
    /\ PoolStart

(***************************************************************************)
(* SmartWorkPool.ProcessKey, first half: the cache hit test.  A hit        *)
(* returns NewFutureResolved; a miss goes on to futureMap.getOrCreate.     *)
(* Callers are interchangeable goroutines: they are numbered in the order  *)
(* of their first call; so are the keys that have no row at the start.     *)
(***************************************************************************)
InUse(key) ==
    futures[key].exists \/ \E c \in Callers : pc[c] # "idle" /\ ckey[c] = key

ProcessKey_registryFirst(c, key) ==
    /\ \/ pc[c] \in {"idle", "done"} /\ gfut[c] = NoGather
       \/ pc[c] = "fanout"
    /\ calls < MaxCalls
    /\ \A d \in Callers : d < c => pc[d] # "idle"
    /\ \A j \in Keys : (1 < j /\ j < key) => InUse(j)
    /\ calls' = calls + 1
    /\ ckey' = [ckey EXCEPT ![c] = key]
    /\ got' = [got EXCEPT ![c] = <<>>]
    /\ LET data == Get(key)
           isHit == ~databaseDisabled /\ data # "nil" /\ ~Finished(key)
       IN /\ cfut' = [cfut EXCEPT ![c] =
                         IF isHit THEN NewFutureResolved(Result(data, "nil"))
                                  ELSE NilFuture]
          /\ pc' = [pc EXCEPT ![c] = IF isHit THEN "await" ELSE "getOrCreate"]
          /\ hist' = [hist EXCEPT ![c] =
                 [afterFinish |-> Finished(key)]]
    /\ UNCHANGED <<resolveVars, expireVars, otherVars, gfut>>
    /\ UNCHANGED <<cache, futures, mapMu, futMu, wpc, wkey, wres, wsends,
                   performCount, putCalled>>

ProcessKey_hitAlsoRegisters(c, key) ==
    /\ \/ pc[c] \in {"idle", "done"} /\ gfut[c] = NoGather
       \/ pc[c] = "fanout"
    /\ calls < MaxCalls
    /\ \A d \in Callers : d < c => pc[d] # "idle"
    /\ \A j \in Keys : (1 < j /\ j < key) => InUse(j)
    /\ calls' = calls + 1
    /\ ckey' = [ckey EXCEPT ![c] = key]
    /\ got' = [got EXCEPT ![c] = <<>>]
    /\ LET data == Get(key)
           isHit == ~databaseDisabled /\ data # "nil"
       IN /\ cfut' = [cfut EXCEPT ![c] =
                         IF isHit THEN NewFutureResolved(Result(data, "nil"))
                                  ELSE NilFuture]
          /\ pc' = [pc EXCEPT ![c] = IF isHit THEN "await" ELSE "getOrCreate"]
          /\ hist' = [hist EXCEPT ![c] =
                 [afterFinish |-> Finished(key)]]
    /\ UNCHANGED <<resolveVars, expireVars, otherVars, gfut>>
    /\ futures' = IF Get(key) # "nil" /\ ~futures[key].exists
                  THEN [futures EXCEPT ![key] = NewFuture] ELSE futures
    /\ UNCHANGED <<cache, mapMu, futMu, wpc, wkey, wres, wsends,
                   performCount, putCalled>>

ProcessKey(c, key) ==
    /\ \/ pc[c] \in {"idle", "done"} /\ gfut[c] = NoGather
       \/ pc[c] = "fanout"
    /\ calls < MaxCalls
    /\ \A d \in Callers : d < c => pc[d] # "idle"
    /\ \A j \in Keys : (1 < j /\ j < key) => InUse(j)
    /\ calls' = calls + 1
    /\ ckey' = [ckey EXCEPT ![c] = key]
    /\ got' = [got EXCEPT ![c] = <<>>]
    /\ LET data == Get(key)
           isHit == ~databaseDisabled /\ data # "nil"
       IN /\ cfut' = [cfut EXCEPT ![c] =
                         IF isHit THEN NewFutureResolved(Result(data, "nil"))
                                  ELSE NilFuture]
          /\ pc' = [pc EXCEPT ![c] = IF isHit THEN "await" ELSE "getOrCreate"]
          /\ hist' = [hist EXCEPT ![c] =
                 [afterFinish |-> Finished(key)]]
    /\ UNCHANGED <<resolveVars, expireVars, otherVars, gfut>>
    /\ UNCHANGED <<cache, futures, mapMu, futMu, wpc, wkey, wres, wsends,
                   performCount, putCalled>>

getOrCreate_neverFinds(c) ==
    /\ pc[c] = "getOrCreate"
    /\ mapMu = 0
    /\ futures' = [futures EXCEPT ![ckey[c]] =
                      IF @.exists THEN @ ELSE NewFuture]
    /\ pc' = [pc EXCEPT ![c] = "enqueue"]
    /\ cfut' = [cfut EXCEPT ![c] = RegistryFuture]
    /\ UNCHANGED <<resolveVars, expireVars, otherVars, gfut>>
    /\ UNCHANGED <<cache, mapMu, futMu, ckey, got, calls, wpc, wkey,
                   wres, wsends, performCount, putCalled, hist>>

(***************************************************************************)
(* futureMap.getOrCreate: under futureMap.m, look the key up or register a *)
(* new pending Future.                                                     *)
(***************************************************************************)
getOrCreate(c) ==
    /\ pc[c] = "getOrCreate"
    /\ mapMu = 0
    /\ LET key == ckey[c] IN
       IF futures[key].exists
       THEN /\ pc' = [pc EXCEPT ![c] = "await"]
            /\ UNCHANGED futures
       ELSE /\ futures' = [futures EXCEPT ![key] = NewFuture]
            /\ pc' = [pc EXCEPT ![c] = "enqueue"]
    /\ cfut' = [cfut EXCEPT ![c] = RegistryFuture]
    /\ UNCHANGED <<resolveVars, expireVars, otherVars, gfut>>
    /\ UNCHANGED <<cache, mapMu, futMu, ckey, got, calls, wpc, wkey,
                   wres, wsends, performCount, putCalled, hist>>

Enqueue_takesBusyWorker(c, w) ==
    /\ pc[c] = "enqueue"
    /\ wpc[w] \in {"idle", "perform"}
    /\ wkey' = [wkey EXCEPT ![w] = ckey[c]]
    /\ wpc' = [wpc EXCEPT ![w] = "perform"]
    /\ pc' = [pc EXCEPT ![c] = "await"]
    /\ performCount' = [performCount EXCEPT ![ckey[c]] = @ + 1]
    /\ UNCHANGED <<resolveVars, expireVars, otherVars, gfut>>
    /\ UNCHANGED <<cache, futures, mapMu, futMu, ckey, cfut, got, calls,
                   wres, wsends, putCalled, hist>>

(***************************************************************************)
(* s.workQueue <- key in ProcessKey meeting `for key := range s.workQueue` *)
(* in work: the channel is unbuffered, so the send completes only together *)
(* with a worker that is waiting to receive.  The worker goes straight on  *)
(* to Perform(key).  The workers are interchangeable: of the waiting ones  *)
(* the lowest numbered stands for whichever receives.                      *)
(***************************************************************************)
Enqueue(c, w) ==
    /\ pc[c] = "enqueue"
    /\ wpc[w] = "idle"
    /\ \A v \in Workers : v < w => wpc[v] # "idle"
    /\ wkey' = [wkey EXCEPT ![w] = ckey[c]]
    /\ wpc' = [wpc EXCEPT ![w] = "perform"]
    /\ pc' = [pc EXCEPT ![c] = "await"]
    /\ performCount' = [performCount EXCEPT ![ckey[c]] = @ + 1]
    /\ UNCHANGED <<resolveVars, expireVars, otherVars, gfut>>
    /\ UNCHANGED <<cache, futures, mapMu, futMu, ckey, cfut, got, calls,
                   wres, wsends, putCalled, hist>>

(***************************************************************************)
(* Future.Await / Future.AwaitTimeout up to the channel wait: under f.m,   *)
(* return the result when it is set, else count the waiter in n.           *)
(***************************************************************************)
Await(c, timed) ==
    /\ pc[c] = "await"
    /\ IF cfut[c].kind = "resolved"
       THEN /\ got' = [got EXCEPT ![c] = cfut[c].result]
            /\ pc' = [pc EXCEPT ![c] = "done"]
            /\ UNCHANGED futures
       ELSE LET key == ckey[c] IN
            /\ futMu[key] = 0
            /\ IF futures[key].result # <<>>
               THEN /\ got' = [got EXCEPT ![c] = futures[key].result]
                    /\ pc' = [pc EXCEPT ![c] = "done"]
                    /\ UNCHANGED futures
               ELSE /\ futures' = [futures EXCEPT ![key].n = @ + 1]
                    /\ pc' = [pc EXCEPT ![c] =
                                 IF timed THEN "select" ELSE "recv"]
                    /\ UNCHANGED got
    /\ UNCHANGED <<resolveVars, expireVars, otherVars, gfut>>
    /\ UNCHANGED <<cache, mapMu, futMu, ckey, cfut, calls, wpc, wkey,
                   wres, wsends, performCount, putCalled, hist>>

(***************************************************************************)
(* AwaitTimeout: `case <-time.After(d)` is taken.                          *)
(***************************************************************************)
TimerFires(c) ==
    /\ pc[c] = "select"
    /\ pc' = [pc EXCEPT ![c] = "timedout"]
    /\ UNCHANGED <<resolveVars, expireVars, otherVars, gfut>>
    /\ UNCHANGED <<cache, futures, mapMu, futMu, ckey, cfut, got, calls,
                   wpc, wkey, wres, wsends, performCount, putCalled, hist>>

TimeoutReturn_dropsFuture(c) ==
    /\ pc[c] = "timedout"
    /\ futMu[ckey[c]] = 0
    /\ futures' = [futures EXCEPT ![ckey[c]] =
                      IF @.n = 1 /\ @.result = <<>> THEN NoFuture
                      ELSE [@ EXCEPT !.n = @ - 1]]
    /\ got' = [got EXCEPT ![c] = <<Result("nil", TimeoutError)>>]
    /\ pc' = [pc EXCEPT ![c] = "done"]
    /\ UNCHANGED <<resolveVars, expireVars, otherVars, gfut>>
    /\ UNCHANGED <<cache, mapMu, futMu, ckey, cfut, calls, wpc, wkey,
                   wres, wsends, performCount, putCalled, hist>>

(***************************************************************************)
(* AwaitTimeout, timer branch: f.m.Lock(); f.n--; return TimeoutError.     *)
(***************************************************************************)
TimeoutReturn(c) ==
    /\ pc[c] = "timedout"
    /\ futMu[ckey[c]] = 0
    /\ futures' = [futures EXCEPT ![ckey[c]].n = @ - 1]
    /\ got' = [got EXCEPT ![c] = <<Result("nil", TimeoutError)>>]
    /\ pc' = [pc EXCEPT ![c] = "done"]
    /\ UNCHANGED <<resolveVars, expireVars, otherVars, gfut>>
    /\ UNCHANGED <<cache, mapMu, futMu, ckey, cfut, calls, wpc, wkey,
                   wres, wsends, performCount, putCalled, hist>>

(***************************************************************************)
(* SmartWorkPool.work: result := s.performer.Perform(key).                 *)
(***************************************************************************)
Perform(w, result) ==
    /\ wpc[w] = "perform"
    /\ wres' = [wres EXCEPT ![w] = <<result>>]
    /\ wpc' = [wpc EXCEPT ![w] =
                  IF result.Error = "nil" /\ ~databaseDisabled
                  THEN "put" ELSE "finish"]
    /\ UNCHANGED <<resolveVars, expireVars, otherVars, gfut>>
    /\ UNCHANGED <<cache, futures, mapMu, futMu, pc, ckey, cfut, got,
                   calls, wkey, wsends, performCount, putCalled, hist>>

Put_failureBecomesResult(w, ok) ==
    /\ wpc[w] = "put"
    /\ cache' = IF ok THEN [cache EXCEPT ![wkey[w]] = wres[w][1].Data]
                      ELSE cache
    /\ wres' = IF ok THEN wres
                     ELSE [wres EXCEPT ![w] = <<Result("nil", "put error")>>]
    /\ putCalled' = [putCalled EXCEPT ![wkey[w]] = TRUE]
    /\ wpc' = [wpc EXCEPT ![w] = "finish"]
    /\ UNCHANGED <<resolveVars, expireVars, otherVars, gfut>>
    /\ UNCHANGED <<futures, mapMu, futMu, pc, ckey, cfut, got, calls,
                   wkey, wsends, performCount, hist>>

(***************************************************************************)
(* SmartWorkPool.work: s.performer.Put(key, result.Data).  The write is    *)
(* best effort: a database error is logged and dropped.                    *)
(***************************************************************************)
Put(w, ok) ==
    /\ wpc[w] = "put"
    /\ cache' = IF ok THEN [cache EXCEPT ![wkey[w]] = wres[w][1].Data]
                      ELSE cache
    /\ putCalled' = [putCalled EXCEPT ![wkey[w]] = TRUE]
    /\ wpc' = [wpc EXCEPT ![w] = "finish"]
    /\ UNCHANGED <<resolveVars, expireVars, otherVars, gfut>>
    /\ UNCHANGED <<futures, mapMu, futMu, pc, ckey, cfut, got, calls,
                   wkey, wres, wsends, performCount, hist>>

(***************************************************************************)
(* futureMap.finish: f.m.Lock() of the registry, held until Resolve is     *)
(* back (defer f.m.Unlock()).                                              *)
(***************************************************************************)
finish(w) ==
    /\ wpc[w] = "finish"
    /\ mapMu = 0
    /\ mapMu' = w
    /\ wpc' = [wpc EXCEPT ![w] = "resolve"]
    /\ UNCHANGED <<resolveVars, expireVars, otherVars, gfut>>
    /\ UNCHANGED <<cache, futures, futMu, pc, ckey, cfut, got, calls,
                   wkey, wres, wsends, performCount, putCalled, hist>>

Resolve_oneSendShort(w) ==
    /\ wpc[w] = "resolve"
    /\ futMu[wkey[w]] = 0
    /\ futMu' = [futMu EXCEPT ![wkey[w]] = w]
    /\ futures' = [futures EXCEPT ![wkey[w]].result = wres[w]]
    /\ wsends' = [wsends EXCEPT ![w] =
                     IF futures[wkey[w]].n > 0 THEN futures[wkey[w]].n - 1 ELSE 0]
    /\ wpc' = [wpc EXCEPT ![w] = "send"]
    /\ UNCHANGED <<resolveVars, expireVars, otherVars, gfut>>
    /\ UNCHANGED <<cache, mapMu, pc, ckey, cfut, got, calls, wkey, wres,
                   performCount, putCalled, hist>>

(***************************************************************************)
(* Future.Resolve: f.m.Lock(); f.result = &result; n := f.n.               *)
(***************************************************************************)
Resolve_sendsToHolders(w) ==
    /\ wpc[w] = "resolve"
    /\ futMu[wkey[w]] = 0
    /\ futMu' = [futMu EXCEPT ![wkey[w]] = w]
    /\ futures' = [futures EXCEPT ![wkey[w]].result = wres[w]]
    /\ wsends' = [wsends EXCEPT ![w] = futures[wkey[w]].n +
           Cardinality({c \in Callers :
               \E i \in 1..Len(gfut[c].futs) :
                   /\ gfut[c].futs[i].key = wkey[w]
                   /\ gfut[c].futs[i].fut.kind = "registry"})]
    /\ wpc' = [wpc EXCEPT ![w] = "send"]
    /\ UNCHANGED <<resolveVars, expireVars, otherVars, gfut>>
    /\ UNCHANGED <<cache, mapMu, pc, ckey, cfut, got, calls, wkey, wres,
                   performCount, putCalled, hist>>

Resolve(w) ==
    /\ wpc[w] = "resolve"
    /\ futMu[wkey[w]] = 0
    /\ futMu' = [futMu EXCEPT ![wkey[w]] = w]
    /\ futures' = [futures EXCEPT ![wkey[w]].result = wres[w]]
    /\ wsends' = [wsends EXCEPT ![w] = futures[wkey[w]].n]
    /\ wpc' = [wpc EXCEPT ![w] = "send"]
    /\ UNCHANGED <<resolveVars, expireVars, otherVars, gfut>>
    /\ UNCHANGED <<cache, mapMu, pc, ckey, cfut, got, calls, wkey, wres,
                   performCount, putCalled, hist>>

(***************************************************************************)
(* One iteration of `f.channel <- result` in Resolve meeting               *)
(* `<-f.channel` of a waiter in Await or in the select of AwaitTimeout.    *)
(***************************************************************************)
Send(w, c) ==
    /\ wpc[w] = "send"
    /\ wsends[w] > 0
    /\ pc[c] \in {"recv", "select"}
    /\ ckey[c] = wkey[w]
    /\ got' = [got EXCEPT ![c] = wres[w]]
    /\ pc' = [pc EXCEPT ![c] = "done"]
    /\ wsends' = [wsends EXCEPT ![w] = @ - 1]
    /\ UNCHANGED <<resolveVars, expireVars, otherVars, gfut>>
    /\ UNCHANGED <<cache, futures, mapMu, futMu, ckey, cfut, calls, wpc,
                   wkey, wres, performCount, putCalled, hist>>

ResolveReturn_deletesEntry(w) ==
    /\ wpc[w] = "send"
    /\ wsends[w] = 0
    /\ futMu' = [futMu EXCEPT ![wkey[w]] = 0]
    /\ mapMu' = 0
    /\ wpc' = [wpc EXCEPT ![w] = "idle"]
    /\ wkey' = [wkey EXCEPT ![w] = 1]
    /\ wres' = [wres EXCEPT ![w] = <<>>]
    /\ UNCHANGED <<resolveVars, expireVars, otherVars, gfut>>
    /\ futures' = [futures EXCEPT ![wkey[w]] = NoFuture]
    /\ UNCHANGED <<cache, pc, ckey, cfut, got, calls,
                   wsends, performCount, putCalled, hist>>

(***************************************************************************)
(* End of the send loop: Resolve returns (f.m unlocked), finish returns    *)
(* (futureMap.m unlocked; the entry stays in the map), the worker goes     *)
(* back to the work queue; key and result of the iteration are gone.       *)
(***************************************************************************)
ResolveReturn(w) ==
    /\ wpc[w] = "send"
    /\ wsends[w] = 0
    /\ futMu' = [futMu EXCEPT ![wkey[w]] = 0]
    /\ mapMu' = 0
    /\ wpc' = [wpc EXCEPT ![w] = "idle"]
    /\ wkey' = [wkey EXCEPT ![w] = 1]
    /\ wres' = [wres EXCEPT ![w] = <<>>]
    /\ UNCHANGED <<resolveVars, expireVars, otherVars, gfut>>
    /\ UNCHANGED <<cache, futures, pc, ckey, cfut, got, calls,
                   wsends, performCount, putCalled, hist>>

(***************************************************************************)
(* expire(): the sweep deletes a row whose expire_time has passed.         *)
(***************************************************************************)
expire(key) ==
    /\ cache[key] # "nil"
    /\ cache' = [cache EXCEPT ![key] = "nil"]
    /\ UNCHANGED <<resolveVars, expireVars, otherVars, gfut>>
    /\ UNCHANGED <<futures, mapMu, futMu, pc, ckey, cfut, got, calls,
                   wpc, wkey, wres, wsends, performCount, putCalled, hist>>

(***************************************************************************)
(* VersionInfo.GatherDependencies run by a worker of versionPool or        *)
(* filePool, which is a caller of packagePool: the fan-out loop appends    *)
(* the Future of each ProcessKey to `futures` and goes on to the next      *)
(* name.                                                                   *)
(***************************************************************************)
AppendFuture(c) ==
    /\ pc[c] = "await"
    /\ ~gfut[c].join
    /\ LET g == gfut[c]
           f == [key |-> ckey[c], fut |-> cfut[c]]
       IN gfut' = [gfut EXCEPT ![c] =
              [futs |-> SubSeq(g.futs, 1, g.top) \o <<f>> \o
                        SubSeq(g.futs, g.top + 1, Len(g.futs)),
               top |-> g.top + 1,
               join |-> FALSE]]
    /\ pc' = [pc EXCEPT ![c] = "fanout"]
    /\ UNCHANGED <<resolveVars, expireVars, otherVars>>
    /\ UNCHANGED <<cache, futures, mapMu, futMu, ckey, cfut, got, calls,
                   wpc, wkey, wres, wsends, performCount, putCalled, hist>>

(***************************************************************************)
(* `for i, future := range futures { result := future.Await()`: the next   *)
(* Future of the slice is awaited, in the order of the fan-out; when the   *)
(* slice of the innermost call is through, the loop of its caller goes on. *)
(***************************************************************************)
RangeFutures(c) ==
    /\ pc[c] \in {"fanout", "done"}
    /\ gfut[c].futs # <<>>
    /\ ckey' = [ckey EXCEPT ![c] = Head(gfut[c].futs).key]
    /\ cfut' = [cfut EXCEPT ![c] = Head(gfut[c].futs).fut]
    /\ gfut' = [gfut EXCEPT ![c] =
                    [futs |-> Tail(@.futs),
                     top |-> IF @.top > 0 THEN @.top - 1 ELSE 0,
                     join |-> TRUE]]
    /\ pc' = [pc EXCEPT ![c] = "await"]
    /\ UNCHANGED <<resolveVars, expireVars, otherVars>>
    /\ UNCHANGED <<cache, futures, mapMu, futMu, got, calls,
                   wpc, wkey, wres, wsends, performCount, putCalled, hist>>

(***************************************************************************)
(* `childVersion.GatherDependencies(parent, false)` inside the await loop: *)
(* the goroutine starts a fan-out of its own while Futures of the calls    *)
(* above it are still to be awaited.                                       *)
(***************************************************************************)
Recurse(c) ==
    /\ pc[c] = "done"
    /\ gfut[c].join
    /\ calls < MaxCalls
    /\ gfut' = [gfut EXCEPT ![c] = [@ EXCEPT !.top = 0, !.join = FALSE]]
    /\ pc' = [pc EXCEPT ![c] = "fanout"]
    /\ UNCHANGED <<resolveVars, expireVars, otherVars>>
    /\ UNCHANGED <<cache, futures, mapMu, futMu, ckey, cfut, got, calls,
                   wpc, wkey, wres, wsends, performCount, putCalled, hist>>

(***************************************************************************)
(* Every await loop is through: GatherDependencies returns to Perform.     *)
(***************************************************************************)
GatherDone(c) ==
    /\ \/ pc[c] = "done" /\ gfut[c].join
       \/ pc[c] = "fanout"
    /\ gfut[c].futs = <<>>
    /\ gfut' = [gfut EXCEPT ![c] = NoGather]
    /\ pc' = [pc EXCEPT ![c] = "done"]
    /\ UNCHANGED <<resolveVars, expireVars, otherVars>>
    /\ UNCHANGED <<cache, futures, mapMu, futMu, ckey, cfut, got, calls,
                   wpc, wkey, wres, wsends, performCount, putCalled, hist>>

PoolNext ==
    \/ \E c \in Callers, key \in Keys : ProcessKey(c, key)
    \/ \E c \in Callers : getOrCreate(c)
    \/ \E c \in Callers, w \in Workers : Enqueue(c, w)
    \/ \E c \in Callers, timed \in BOOLEAN : Await(c, timed)
    \/ \E c \in Callers : TimerFires(c)
    \/ \E c \in Callers : TimeoutReturn(c)
    \/ \E w \in Workers, r \in PerformResults : Perform(w, r)
    \/ \E w \in Workers, ok \in BOOLEAN : Put(w, ok)
    \/ \E w \in Workers : finish(w)
    \/ \E w \in Workers : Resolve(w)
    \/ \E w \in Workers, c \in Callers : Send(w, c)
    \/ \E w \in Workers : ResolveReturn(w)
    \/ \E key \in Keys : expire(key)

(***************************************************************************)
(* The registry the resolver runs against.  Versions are "1.0.0" ..        *)
(* "<MaxVer>.0.0"; every package publishes all of them, the latest tag     *)
(* names the highest.                                                      *)
(***************************************************************************)
MaxVer == 2

Pkgs == {"a", "b", "c"}
RootName == "a"
Platform == [os |-> "linux", cpu |-> "x64"]

VersionString(i) == ToString(i) \o ".0.0"

Published == {VersionString(i) : i \in 1..MaxVer}

Ranges == {"*"} \cup {"^" \o VersionString(i) : i \in 1..MaxVer}
Unmatched == "^" \o VersionString(MaxVer + 1)
Unparseable == "file:../x"

\* a version string semver can parse that no package publishes, and a key
\* of a versions map that is no semver version
Unpublished == VersionString(MaxVer + 1)
Malformed == "beta"

(***************************************************************************)
(* semver.NewVersion: the major number of a version string, 0 when the     *)
(* string does not parse.                                                  *)
(***************************************************************************)
semverNewVersion(vRaw) ==
    IF \E i \in 1..(MaxVer + 1) : VersionString(i) = vRaw
    THEN CHOOSE i \in 1..(MaxVer + 1) : VersionString(i) = vRaw
    ELSE 0

(***************************************************************************)
(* semver.NewConstraint: "*", "^N.0.0" and "<N.0.0" parse, anything else   *)
(* is an error.                                                            *)
(***************************************************************************)
semverNewConstraint(raw) ==
    IF raw = "*" THEN [ok |-> TRUE, any |-> TRUE, below |-> FALSE, major |-> 0]
    ELSE IF \E i \in 1..(MaxVer + 1) : raw = "^" \o VersionString(i)
    THEN [ok |-> TRUE, any |-> FALSE, below |-> FALSE,
          major |-> CHOOSE i \in 1..(MaxVer + 1) : raw = "^" \o VersionString(i)]
    ELSE IF \E i \in 1..(MaxVer + 1) : raw = "<" \o VersionString(i)
    THEN [ok |-> TRUE, any |-> FALSE, below |-> TRUE,
          major |-> CHOOSE i \in 1..(MaxVer + 1) : raw = "<" \o VersionString(i)]
    ELSE [ok |-> FALSE, any |-> FALSE, below |-> FALSE, major |-> 0]

(***************************************************************************)
(* Constraints.Validate / Check on a parsed version.                       *)
(***************************************************************************)
Validate(constraint, version) ==
    /\ constraint.ok
    /\ \/ constraint.any
       \/ constraint.below /\ version < constraint.major
       \/ ~constraint.below /\ constraint.major = version

NoFault == [kind |-> "none", name |-> "", version |-> ""]

Faults ==
    {NoFault}
    \cup {[kind |-> "fetch", name |-> n, version |-> ""] : n \in Pkgs \ {RootName}}
    \cup {[kind |-> k, name |-> "c", version |-> VersionString(MaxVer)] :
              k \in {"os", "cpu"}}

DepMaps(targets, constraints, max) ==
    UNION {[S -> constraints] : S \in {T \in SUBSET targets : Cardinality(T) <= max}}

EmptyMap == [x \in {} |-> 0]

NpmUserOf(name) ==
    CASE name = "a" -> [Name |-> "alice", Email |-> ""]
      [] name = "b" -> [Name |-> "", Email |-> ""]
      [] OTHER -> [Name |-> "bob", Email |-> "bob@example.com"]

(***************************************************************************)
(* VersionInfo.GetPublisher                                                *)
(***************************************************************************)
GetPublisher(v) ==
    IF v.NpmUser.Name # ""
    THEN IF v.NpmUser.Email # ""
         THEN v.NpmUser.Name \o " ( " \o v.NpmUser.Email \o " )"
         ELSE v.NpmUser.Name
    ELSE IF v.NpmUser.Email # "" THEN v.NpmUser.Email ELSE ""

FileCountOf(name, i) ==
    i + (CASE name = "a" -> 2 [] name = "b" -> 4 [] OTHER -> 8)

(***************************************************************************)
(* The VersionInfo the registry holds for version i of a package.          *)
(***************************************************************************)
VersionInfo(name, i) ==
    LET restricted == fault.name = name /\ fault.version = VersionString(i) IN
    [Name |-> name,
     Version |-> VersionString(i),
     Dependencies |-> pkgDeps[name],
     DevDependencies |-> pkgDevDeps[name],
     NpmUser |-> NpmUserOf(name),
     Dist |-> [FileCount |-> FileCountOf(name, i),
               UnpackedSize |-> 100 * FileCountOf(name, i)],
     Os |-> IF restricted /\ fault.kind = "os" THEN <<"win32", "darwin">>
            ELSE IF restricted THEN <<"linux">> ELSE <<>>,
     Cpu |-> IF restricted /\ fault.kind = "cpu" THEN <<"arm64">> ELSE <<>>]

(***************************************************************************)
(* The zero value of VersionInfo: what a lookup in the Versions map gives  *)
(* for a key the map does not have.                                        *)
(***************************************************************************)
ZeroVersionInfo ==
    [Name |-> "", Version |-> "",
     Dependencies |-> EmptyMap, DevDependencies |-> EmptyMap,
     NpmUser |-> [Name |-> "", Email |-> ""],
     Dist |-> [FileCount |-> 0, UnpackedSize |-> 0],
     Os |-> <<>>, Cpu |-> <<>>]

PackageInfo(name) ==
    [Name |-> name,
     DistTags |-> [Latest |-> latestTag],
     Versions |->
        [v \in Published \cup (IF name = RootName THEN extraVersions ELSE {}) |->
            IF v \in Published THEN VersionInfo(name, semverNewVersion(v))
            ELSE [VersionInfo(name, 1) EXCEPT
                     !.Version = v, !.NpmUser = [Name |-> "", Email |-> ""]]]]

MaxVersion_lowest(p, constraintRaw) ==
    LET constraint == semverNewConstraint(constraintRaw)
        matching == {v \in DOMAIN p.Versions :
                        /\ semverNewVersion(v) # 0
                        /\ Validate(constraint, semverNewVersion(v))}
    IN IF ~constraint.ok \/ matching = {}
       THEN [ok |-> FALSE, info |-> VersionInfo(p.Name, 1)]
       ELSE [ok |-> TRUE,
             info |-> p.Versions[CHOOSE v \in matching :
                         \A u \in matching :
                             semverNewVersion(v) <= semverNewVersion(u)]]

(***************************************************************************)
(* PackageInfo.MaxVersion: the published version of highest precedence     *)
(* that satisfies the constraint.                                          *)
(***************************************************************************)
MaxVersion(p, constraintRaw) ==
    LET constraint == semverNewConstraint(constraintRaw)
        matching == {v \in DOMAIN p.Versions :
                        /\ semverNewVersion(v) # 0
                        /\ Validate(constraint, semverNewVersion(v))}
    IN IF ~constraint.ok \/ matching = {}
       THEN [ok |-> FALSE, info |-> VersionInfo(p.Name, 1)]
       ELSE [ok |-> TRUE,
             info |-> p.Versions[CHOOSE v \in matching :
                         \A u \in matching :
                             semverNewVersion(u) <= semverNewVersion(v)]]

(***************************************************************************)
(* PackageInfo.LatestVersion: p.Versions[p.DistTags.Latest], the zero      *)
(* VersionInfo when the tag is no key of the map.                          *)
(***************************************************************************)
PackageInfoLatestVersion(p) ==
    IF p.DistTags.Latest \in DOMAIN p.Versions
    THEN p.Versions[p.DistTags.Latest] ELSE ZeroVersionInfo

(***************************************************************************)
(* The zero value of VulnerabilityStats.                                   *)
(***************************************************************************)
NoVulnerabilityStats ==
    [LowCount |-> 0, MediumCount |-> 0, HighCount |-> 0, CriticalCount |-> 0]

NewVersion_rootNotCounted(versionInfo) ==
    [Info |-> versionInfo,
     Dependencies |-> EmptyMap,
     Publishers |-> IF GetPublisher(versionInfo) # ""
                    THEN (GetPublisher(versionInfo) :> 1) ELSE EmptyMap,
     Vulnerabilities |-> <<>>,
     Stats |-> [Packages |-> 0, Versions |-> 0, Files |-> 0, DiskSpace |-> 0,
                VulnerabilityStats |-> NoVulnerabilityStats],
     Errors |-> <<>>]

(***************************************************************************)
(* NewVersion: the fresh aggregate of a root.                              *)
(***************************************************************************)
NewVersion(versionInfo) ==
    [Info |-> versionInfo,
     Dependencies |-> EmptyMap,
     Publishers |-> IF GetPublisher(versionInfo) # ""
                    THEN (GetPublisher(versionInfo) :> 1) ELSE EmptyMap,
     Vulnerabilities |-> <<>>,
     Stats |-> [Packages |-> 1, Versions |-> 1,
                Files |-> versionInfo.Dist.FileCount,
                DiskSpace |-> versionInfo.Dist.UnpackedSize,
                VulnerabilityStats |-> NoVulnerabilityStats],
     Errors |-> <<>>]

HasMatchingVersion_firstOnly(versions, constraint) ==
    /\ Len(versions) > 0
    /\ semverNewVersion(versions[1]) # 0
    /\ Validate(constraint, semverNewVersion(versions[1]))

HasMatchingVersion_never(versions, constraint) == FALSE

HasMatchingVersion_skipsLast(versions, constraint) ==
    \E j \in 1..(Len(versions) - 1) :
        /\ semverNewVersion(versions[j]) # 0
        /\ Validate(constraint, semverNewVersion(versions[j]))

(***************************************************************************)
(* HasMatchingVersion: some version of the list parses and satisfies the   *)
(* constraint.                                                             *)
(***************************************************************************)
HasMatchingVersion(versions, constraint) ==
    \E j \in 1..Len(versions) :
        /\ semverNewVersion(versions[j]) # 0
        /\ Validate(constraint, semverNewVersion(versions[j]))

strArrContain(array, str) == \E j \in 1..Len(array) : array[j] = str

MatchPlatform_osOnly(v, os, cpu) ==
    Len(v.Os) > 0 => strArrContain(v.Os, os)

(***************************************************************************)
(* VersionInfo.MatchPlatform                                               *)
(***************************************************************************)
MatchPlatform(v, os, cpu) ==
    /\ (Len(v.Os) > 0 => strArrContain(v.Os, os))
    /\ (Len(v.Cpu) > 0 => strArrContain(v.Cpu, cpu))

(***************************************************************************)
(* packagePool.ProcessKey(name).Await() as the resolver sees it.           *)
(***************************************************************************)
AwaitPackage(name) ==
    IF fault.kind = "fetch" /\ fault.name = name
    THEN Result("nil", "fetch error") ELSE Result(name, "nil")

AddChild_countsEveryVersionAsPackage(par, name, childVersion) ==
    LET publisher == GetPublisher(childVersion)
        count == IF publisher \in DOMAIN par.Publishers
                 THEN par.Publishers[publisher] ELSE 0
    IN [par EXCEPT
          !.Dependencies =
              IF name \in DOMAIN par.Dependencies
              THEN [par.Dependencies EXCEPT
                       ![name] = Append(@, childVersion.Version)]
              ELSE (name :> <<childVersion.Version>>) @@ par.Dependencies,
          !.Publishers = (publisher :> (count + 1)) @@ par.Publishers,
          !.Stats = [Packages |-> @.Packages + 1,
                     Versions |-> @.Versions + 1,
                     Files |-> @.Files + childVersion.Dist.FileCount,
                     DiskSpace |-> @.DiskSpace + childVersion.Dist.UnpackedSize,
                     VulnerabilityStats |-> @.VulnerabilityStats]]

AddChild_skipsEmptyPublisher(par, name, childVersion) ==
    LET hasDepend == name \in DOMAIN par.Dependencies
        publisher == GetPublisher(childVersion)
        count == IF publisher \in DOMAIN par.Publishers
                 THEN par.Publishers[publisher] ELSE 0
    IN [par EXCEPT
          !.Dependencies =
              IF hasDepend
              THEN [par.Dependencies EXCEPT
                       ![name] = Append(@, childVersion.Version)]
              ELSE (name :> <<childVersion.Version>>) @@ par.Dependencies,
          !.Publishers = IF publisher = "" THEN par.Publishers
                         ELSE (publisher :> (count + 1)) @@ par.Publishers,
          !.Stats = [Packages |-> IF hasDepend THEN @.Packages
                                               ELSE @.Packages + 1,
                     Versions |-> @.Versions + 1,
                     Files |-> @.Files + childVersion.Dist.FileCount,
                     DiskSpace |-> @.DiskSpace + childVersion.Dist.UnpackedSize,
                     VulnerabilityStats |-> @.VulnerabilityStats]]

(***************************************************************************)
(* The bookkeeping of a selected child version that is to be gathered:     *)
(* lines 267-285 of GatherDependencies.                                    *)
(***************************************************************************)
AddChild(par, name, childVersion) ==
    LET hasDepend == name \in DOMAIN par.Dependencies
        publisher == GetPublisher(childVersion)
        count == IF publisher \in DOMAIN par.Publishers
                 THEN par.Publishers[publisher] ELSE 0
    IN [par EXCEPT
          !.Dependencies =
              IF hasDepend
              THEN [par.Dependencies EXCEPT
                       ![name] = Append(@, childVersion.Version)]
              ELSE (name :> <<childVersion.Version>>) @@ par.Dependencies,
          !.Publishers = (publisher :> (count + 1)) @@ par.Publishers,
          !.Stats = [Packages |-> IF hasDepend THEN @.Packages
                                               ELSE @.Packages + 1,
                     Versions |-> @.Versions + 1,
                     Files |-> @.Files + childVersion.Dist.FileCount,
                     DiskSpace |-> @.DiskSpace + childVersion.Dist.UnpackedSize,
                     VulnerabilityStats |-> @.VulnerabilityStats]]

(***************************************************************************)
(* One iteration of the loop over the futures in GatherDependencies, up to *)
(* the recursive call: the new aggregate, how the edge ended and the       *)
(* version selected.                                                       *)
(***************************************************************************)
GatherEdge(par, name, constraintRaw) ==
    LET result == AwaitPackage(name)
        constraint == semverNewConstraint(constraintRaw)
        selected == MaxVersion(PackageInfo(name), constraintRaw)
        childVersion == selected.info
        failed(msg) == [parent |-> [par EXCEPT !.Errors = Append(@, msg)],
                        outcome |-> "error", child |-> childVersion]
    IN IF result.Error # "nil"
       THEN failed("could not get " \o name)
       ELSE IF ~constraint.ok
       THEN failed("invalid constraint for " \o name)
       ELSE IF ~selected.ok
       THEN failed("no matching version for " \o name)
       ELSE IF ~MatchPlatform(childVersion, Platform.os, Platform.cpu)
       THEN [parent |-> par, outcome |-> "platform", child |-> childVersion]
       ELSE IF /\ name \in DOMAIN par.Dependencies
               /\ HasMatchingVersion(par.Dependencies[name], constraint)
       THEN [parent |-> par, outcome |-> "covered", child |-> childVersion]
       ELSE [parent |-> AddChild(par, name, childVersion),
             outcome |-> "added", child |-> childVersion]

(***************************************************************************)
(* The orders in which `range p.Dependencies` can yield the entries of a   *)
(* dependencies map: every permutation.                                    *)
(***************************************************************************)
Orders(deps) ==
    LET n == Cardinality(DOMAIN deps) IN
    {[j \in 1..n |-> <<f[j], deps[f[j]]>>] :
        f \in {g \in [1..n -> DOMAIN deps] :
                  \A x, y \in 1..n : x # y => g[x] # g[y]}}

Severities == {"low", "medium", "high", "critical"}

Vulnerability(id, name, vulnerable, severity) ==
    [Id |-> id, PackageName |-> name,
     Semver |-> [Vulnerable |-> vulnerable], Severity |-> severity]

(***************************************************************************)
(* The rows of the vulnerabilities table, in the order of the query        *)
(* (ORDER BY name, publication_time DESC).                                 *)
(***************************************************************************)
VulnerabilityRows ==
    <<Vulnerability("V1", "a", <<"*", "^" \o VersionString(MaxVer)>>, "low"),
      Vulnerability("V2", "a", <<"<" \o VersionString(MaxVer)>>, "high"),
      Vulnerability("V3", "b", <<"<" \o VersionString(1)>>, "medium"),
      Vulnerability("V4", "c", <<"<" \o VersionString(2)>>, "high"),
      Vulnerability("V5", "c", <<"no range", "<" \o VersionString(MaxVer + 1)>>,
                    "critical"),
      Vulnerability("V6", "c", <<"^" \o VersionString(MaxVer)>>, "low")>>

(***************************************************************************)
(* DbGetVulnerabilitiesForPackages: the rows WHERE name IN (packages).     *)
(***************************************************************************)
DbGetVulnerabilitiesForPackages(packages) ==
    LET named(v) == v.PackageName \in packages
    IN SelectSeq(VulnerabilityRows, named)

(***************************************************************************)
(* GetVulnerabilityStats: the vulnerabilities counted by severity.         *)
(***************************************************************************)
GetVulnerabilityStats(vulnerabilities) ==
    LET count(severity) ==
            Cardinality({j \in 1..Len(vulnerabilities) :
                            vulnerabilities[j].Severity = severity})
    IN [LowCount |-> count("low"), MediumCount |-> count("medium"),
        HighCount |-> count("high"), CriticalCount |-> count("critical")]

VulnerabilityMatches_rootAlsoFromDependencies(v, vulnerability) ==
    LET name == vulnerability.PackageName
        depVersions == IF name \in DOMAIN v.Dependencies
                       THEN v.Dependencies[name]
                       ELSE IF name = v.Info.Name THEN <<v.Info.Version>>
                       ELSE <<>>
    IN \E i \in 1..Len(depVersions) :
          /\ semverNewVersion(depVersions[i]) # 0
          /\ \E j \in 1..Len(vulnerability.Semver.Vulnerable) :
                 LET c == semverNewConstraint(vulnerability.Semver.Vulnerable[j])
                 IN c.ok /\ Validate(c, semverNewVersion(depVersions[i]))

VulnerabilityMatches_stopsAtMalformed(v, vulnerability) ==
    LET name == vulnerability.PackageName
        depVersions == IF name = v.Info.Name THEN <<v.Info.Version>>
                       ELSE IF name \in DOMAIN v.Dependencies
                       THEN v.Dependencies[name] ELSE <<>>
        ranges == vulnerability.Semver.Vulnerable
    IN \E i \in 1..Len(depVersions) :
          /\ \A h \in 1..i : semverNewVersion(depVersions[h]) # 0
          /\ \E j \in 1..Len(ranges) :
                 /\ \A h \in 1..j : semverNewConstraint(ranges[h]).ok
                 /\ Validate(semverNewConstraint(ranges[j]),
                             semverNewVersion(depVersions[i]))

(***************************************************************************)
(* The body of the loop over allVulnerabilities in GatherVulnerabilities:  *)
(* the value of `match` for one vulnerability.                             *)
(***************************************************************************)
VulnerabilityMatches(v, vulnerability) ==
    LET name == vulnerability.PackageName
        depVersions == IF name = v.Info.Name THEN <<v.Info.Version>>
                       ELSE IF name \in DOMAIN v.Dependencies
                       THEN v.Dependencies[name] ELSE <<>>
    IN \E i \in 1..Len(depVersions) :
          /\ semverNewVersion(depVersions[i]) # 0
          /\ \E j \in 1..Len(vulnerability.Semver.Vulnerable) :
                 LET c == semverNewConstraint(vulnerability.Semver.Vulnerable[j])
                 IN c.ok /\ Validate(c, semverNewVersion(depVersions[i]))

(***************************************************************************)
(* GatherVulnerabilities after the query: v.Vulnerabilities and            *)
(* v.Stats.VulnerabilityStats are set from the matching rows.              *)
(***************************************************************************)
SetVulnerabilities(v, allVulnerabilities) ==
    LET match(vulnerability) == VulnerabilityMatches(v, vulnerability)
        vulnerabilities == SelectSeq(allVulnerabilities, match)
    IN [v EXCEPT !.Vulnerabilities = vulnerabilities,
                 !.Stats.VulnerabilityStats =
                     GetVulnerabilityStats(vulnerabilities)]

NoQuery == [names |-> {}, rows |-> <<>>, err |-> FALSE]

Frame(edges) == [edges |-> edges, i |-> 1]

NoFetches == [n \in Pkgs |-> 0]

FanOut_firstNameOnly(count, deps) ==
    [n \in Pkgs |->
        IF n \in DOMAIN deps /\ n = (CHOOSE o \in DOMAIN deps : TRUE)
        THEN count[n] + 1 ELSE count[n]]

(***************************************************************************)
(* The fan-out at the head of VersionInfo.GatherDependencies: one          *)
(* packagePool.ProcessKey(name) per entry of the dependencies map.         *)
(***************************************************************************)
FanOut(count, deps) ==
    [n \in Pkgs |-> IF n \in DOMAIN deps THEN count[n] + 1 ELSE count[n]]

NoEdge == [name |-> "", constraint |-> "", outcome |-> "none"]

SiblingOrders_alwaysDev(p, dev) ==
    {e \o d : e \in Orders(p.Dependencies), d \in Orders(p.DevDependencies)}

(***************************************************************************)
(* The names, constraints and futures slices a GatherDependencies(parent,  *)
(* alsoDev) call on VersionInfo p builds: the dependencies in some order,  *)
(* then, if alsoDev, the devDependencies in some order.                    *)
(***************************************************************************)
SiblingOrders(p, dev) ==
    {e \o d : e \in Orders(p.Dependencies),
              d \in IF dev THEN Orders(p.DevDependencies) ELSE {<<>>}}

(***************************************************************************)
(* The ProcessKey calls of that fan-out, counted per name.                 *)
(***************************************************************************)
FanOutAll(count, p, dev) ==
    IF dev THEN FanOut(FanOut(count, p.Dependencies), p.DevDependencies)
    ELSE FanOut(count, p.Dependencies)

ResolveOff ==
    /\ pkgDeps = [n \in Pkgs |-> EmptyMap]
    /\ pkgDevDeps = [n \in Pkgs |-> EmptyMap]
    /\ alsoDev = FALSE
    /\ versionRaw = ""
    /\ latestTag = VersionString(MaxVer)
    /\ extraVersions = {}
    /\ expansions = 0
    /\ fault = NoFault
    /\ parent = NewVersion(VersionInfo(RootName, MaxVer))
    /\ stack = <<>>
    /\ rpc = "off"
    /\ lastEdge = NoEdge
    /\ prev = <<>>
    /\ fetches = NoFetches
    /\ vulnQuery = NoQuery

ResolveInit ==
    /\ \E rootDeps \in DepMaps(Pkgs \ {RootName},
                                Ranges \cup {Unmatched, Unparseable},
                                Cardinality(Pkgs)) :
       \E childDeps \in [Pkgs \ {RootName} -> DepMaps(Pkgs, Ranges, 1)] :
           /\ \A n \in Pkgs \ {RootName} : n \notin DOMAIN childDeps[n]
           /\ pkgDeps = (RootName :> rootDeps) @@ childDeps
    /\ pkgDevDeps = [n \in Pkgs |-> EmptyMap]
    /\ alsoDev = FALSE
    /\ versionRaw = ""
    /\ latestTag = VersionString(MaxVer)
    /\ extraVersions = {}
    /\ expansions = 0
    /\ fault \in Faults
    /\ parent = NewVersion(VersionInfo(RootName, MaxVer))
    /\ stack = <<>>
    /\ rpc = "idle"
    /\ lastEdge = NoEdge
    /\ prev = <<>>
    /\ fetches = NoFetches
    /\ vulnQuery = NoQuery

(***************************************************************************)
(* PackageInfo.GatherDependencies(versionRaw) up to the fan-out of the     *)
(* root: a version string that is no key of p.Versions is an error; else   *)
(* the version named, or for "" the latest version, becomes the root of a  *)
(* fresh aggregate.                                                        *)
(***************************************************************************)
GatherDependencies ==
    /\ rpc = "idle"
    /\ LET p == PackageInfo(RootName)
           ok == versionRaw = "" \/ versionRaw \in DOMAIN p.Versions
           versionInfo == IF versionRaw # "" THEN p.Versions[versionRaw]
                          ELSE PackageInfoLatestVersion(p)
       IN IF ~ok
          THEN /\ rpc' = "failed"
               /\ UNCHANGED <<parent, stack, fetches>>
          ELSE /\ parent' = NewVersion(versionInfo)
               /\ \E edges \in SiblingOrders(versionInfo, alsoDev) :
                      stack' = IF Len(edges) > 0 THEN <<Frame(edges)>> ELSE <<>>
               /\ fetches' = FanOutAll(NoFetches, versionInfo, alsoDev)
               /\ rpc' = "run"
    /\ lastEdge' = NoEdge
    /\ expansions' = 0
    /\ UNCHANGED <<pkgDeps, fault, prev, vulnQuery>>
    /\ UNCHANGED <<pkgDevDeps, alsoDev, versionRaw, latestTag, extraVersions>>
    /\ UNCHANGED <<poolVars, expireVars, otherVars>>

ProcessEdge_breaksAtError ==
    /\ rpc = "run"
    /\ stack # <<>>
    /\ LET top == stack[Len(stack)]
       IN /\ top.i <= Len(top.edges)
          /\ LET name == top.edges[top.i][1]
                 constraintRaw == top.edges[top.i][2]
                 step == GatherEdge(parent, name, constraintRaw)
                 rest == [stack EXCEPT ![Len(stack)].i = @ + 1]
                 out == [stack EXCEPT ![Len(stack)].i = Len(top.edges) + 1]
             IN /\ parent' = step.parent
                /\ lastEdge' = [name |-> name, constraint |-> constraintRaw,
                                outcome |-> step.outcome]
                /\ fetches' = IF step.outcome = "added"
                               THEN FanOutAll(fetches, step.child, FALSE)
                               ELSE fetches
                /\ expansions' = IF step.outcome = "added"
                                  THEN expansions + 1 ELSE expansions
                /\ IF step.outcome = "added"
                   THEN \E edges \in SiblingOrders(step.child, FALSE) :
                            stack' = IF Len(edges) > 0
                                     THEN Append(rest, Frame(edges)) ELSE rest
                   ELSE IF step.outcome = "error"
                   THEN stack' = out
                   ELSE stack' = rest
    /\ UNCHANGED <<pkgDeps, fault, rpc, prev, vulnQuery>>
    /\ UNCHANGED <<pkgDevDeps, alsoDev, versionRaw, latestTag, extraVersions>>
    /\ UNCHANGED <<poolVars, expireVars, otherVars>>

ProcessEdge_recursesWhenCovered ==
    /\ rpc = "run"
    /\ stack # <<>>
    /\ LET top == stack[Len(stack)]
       IN /\ top.i <= Len(top.edges)
          /\ LET name == top.edges[top.i][1]
                 constraintRaw == top.edges[top.i][2]
                 step == GatherEdge(parent, name, constraintRaw)
                 rest == [stack EXCEPT ![Len(stack)].i = @ + 1]
             IN /\ parent' = step.parent
                /\ lastEdge' = [name |-> name, constraint |-> constraintRaw,
                                outcome |-> step.outcome]
                /\ fetches' = IF step.outcome \in {"added", "covered"}
                               THEN FanOutAll(fetches, step.child, FALSE)
                               ELSE fetches
                /\ expansions' = IF step.outcome \in {"added", "covered"}
                                  THEN expansions + 1 ELSE expansions
                /\ IF step.outcome \in {"added", "covered"}
                   THEN \E edges \in SiblingOrders(step.child, FALSE) :
                            stack' = IF Len(edges) > 0
                                     THEN Append(rest, Frame(edges)) ELSE rest
                   ELSE stack' = rest
    /\ UNCHANGED <<pkgDeps, fault, rpc, prev, vulnQuery>>
    /\ UNCHANGED <<pkgDevDeps, alsoDev, versionRaw, latestTag, extraVersions>>
    /\ UNCHANGED <<poolVars, expireVars, otherVars>>

(***************************************************************************)
(* One iteration of `for i, future := range futures`; an added child is    *)
(* entered at once (childVersion.GatherDependencies(parent, false)).       *)
(***************************************************************************)
ProcessEdge ==
    /\ rpc = "run"
    /\ stack # <<>>
    /\ LET top == stack[Len(stack)]
       IN /\ top.i <= Len(top.edges)
          /\ LET name == top.edges[top.i][1]
                 constraintRaw == top.edges[top.i][2]
                 step == GatherEdge(parent, name, constraintRaw)
                 rest == [stack EXCEPT ![Len(stack)].i = @ + 1]
             IN /\ parent' = step.parent
                /\ lastEdge' = [name |-> name, constraint |-> constraintRaw,
                                outcome |-> step.outcome]
                /\ fetches' = IF step.outcome = "added"
                               THEN FanOutAll(fetches, step.child, FALSE)
                               ELSE fetches
                /\ expansions' = IF step.outcome = "added"
                                  THEN expansions + 1 ELSE expansions
                /\ IF step.outcome = "added"
                   THEN \E edges \in SiblingOrders(step.child, FALSE) :
                            stack' = IF Len(edges) > 0
                                     THEN Append(rest, Frame(edges)) ELSE rest
                   ELSE stack' = rest
    /\ UNCHANGED <<pkgDeps, fault, rpc, prev, vulnQuery>>
    /\ UNCHANGED <<pkgDevDeps, alsoDev, versionRaw, latestTag, extraVersions>>
    /\ UNCHANGED <<poolVars, expireVars, otherVars>>

(***************************************************************************)
(* The loop over the futures is through: the call returns to its caller.   *)
(***************************************************************************)
GatherReturn ==
    /\ rpc = "run"
    /\ IF stack = <<>>
       THEN /\ rpc' = IF alsoDev THEN "done" ELSE "vuln"
            /\ UNCHANGED stack
       ELSE /\ stack[Len(stack)].i > Len(stack[Len(stack)].edges)
            /\ stack' = SubSeq(stack, 1, Len(stack) - 1)
            /\ UNCHANGED rpc
    /\ UNCHANGED <<pkgDeps, fault, parent, lastEdge, prev, fetches, vulnQuery>>
    /\ UNCHANGED expansions
    /\ UNCHANGED <<pkgDevDeps, alsoDev, versionRaw, latestTag, extraVersions>>
    /\ UNCHANGED <<poolVars, expireVars, otherVars>>

GatherVulnerabilities_failsOnErrors ==
    /\ rpc = "vuln"
    /\ LET packageNames == {parent.Info.Name} \cup DOMAIN parent.Dependencies IN
       \E dbErr \in BOOLEAN :
          IF dbErr \/ parent.Errors # <<>>
          THEN /\ vulnQuery' = [names |-> packageNames, rows |-> <<>>,
                                err |-> dbErr]
               /\ rpc' = "failed"
               /\ UNCHANGED parent
          ELSE LET all == DbGetVulnerabilitiesForPackages(packageNames) IN
               /\ vulnQuery' = [names |-> packageNames, rows |-> all,
                                err |-> FALSE]
               /\ parent' = SetVulnerabilities(parent, all)
               /\ rpc' = "done"
    /\ UNCHANGED <<pkgDeps, fault, stack, lastEdge, prev, fetches>>
    /\ UNCHANGED expansions
    /\ UNCHANGED <<pkgDevDeps, alsoDev, versionRaw, latestTag, extraVersions>>
    /\ UNCHANGED <<poolVars, expireVars, otherVars>>

(***************************************************************************)
(* The tail of PackageInfo.GatherDependencies: parent.GatherVulnerabilities*)
(* reads the vulnerabilities of the tree's packages from the database; an  *)
(* error of the query is returned instead of the tree.                     *)
(***************************************************************************)
GatherVulnerabilities ==
    /\ rpc = "vuln"
    /\ LET packageNames == {parent.Info.Name} \cup DOMAIN parent.Dependencies IN
       \E dbErr \in BOOLEAN :
          IF dbErr
          THEN /\ vulnQuery' = [names |-> packageNames, rows |-> <<>>,
                                err |-> TRUE]
               /\ rpc' = "failed"
               /\ UNCHANGED parent
          ELSE LET all == DbGetVulnerabilitiesForPackages(packageNames) IN
               /\ vulnQuery' = [names |-> packageNames, rows |-> all,
                                err |-> FALSE]
               /\ parent' = SetVulnerabilities(parent, all)
               /\ rpc' = "done"
    /\ UNCHANGED <<pkgDeps, fault, stack, lastEdge, prev, fetches>>
    /\ UNCHANGED expansions
    /\ UNCHANGED <<pkgDevDeps, alsoDev, versionRaw, latestTag, extraVersions>>
    /\ UNCHANGED <<poolVars, expireVars, otherVars>>

(***************************************************************************)
(* The same root is requested again (a later Perform of the same key, over *)
(* the same registry contents).                                            *)
(***************************************************************************)
ResolveAgain ==
    /\ rpc = "done"
    /\ prev = <<>>
    /\ prev' = <<parent>>
    /\ rpc' = "idle"
    /\ UNCHANGED <<pkgDeps, fault, parent, stack, lastEdge, fetches, vulnQuery>>
    /\ UNCHANGED expansions
    /\ UNCHANGED <<pkgDevDeps, alsoDev, versionRaw, latestTag, extraVersions>>
    /\ UNCHANGED <<poolVars, expireVars, otherVars>>

ResolveNext ==
    \/ GatherDependencies
    \/ ProcessEdge
    \/ GatherReturn
    \/ GatherVulnerabilities
    \/ ResolveAgain

(***************************************************************************)
(* The uploaded-file pool for one id: uploadHandler stores the skeleton,   *)
(* GetFile goes through filePool.ProcessKey (FilePerformer.Get, then the   *)
(* registry), the worker runs FilePerformer.Perform, Put and finish.       *)
(***************************************************************************)
NoServed == [src |-> "none", result |-> Result(<<>>, "nil")]

NoFileFuture == [state |-> "none", result |-> Result(<<>>, "nil")]

FileOff ==
    /\ fileRow = <<>>
    /\ fileFuture = NoFileFuture
    /\ fpc = "off"
    /\ served = NoServed

FileStart ==
    /\ fileRow = <<>>
    /\ fileFuture = NoFileFuture
    /\ fpc = "idle"
    /\ served = NoServed

(***************************************************************************)
(* The package.json of the upload: name, version and the two maps; it has  *)
(* no _npmUser and no dist.                                                *)
(***************************************************************************)
UploadedInfo ==
    [ZeroVersionInfo EXCEPT !.Name = RootName,
                            !.Version = VersionString(MaxVer),
                            !.Dependencies = pkgDeps[RootName],
                            !.DevDependencies = pkgDevDeps[RootName]]

(***************************************************************************)
(* uploadHandler: NewVersion of the parsed file is stored under a new id.  *)
(***************************************************************************)
uploadHandler ==
    /\ fpc # "off"
    /\ fileRow = <<>>
    /\ fileRow' = <<NewVersion(UploadedInfo)>>
    /\ UNCHANGED <<fileFuture, fpc, served>>
    /\ UNCHANGED <<poolVars, resolveVars, expireVars, feedVars, sweepVars>>

(***************************************************************************)
(* fileIsReady                                                             *)
(***************************************************************************)
fileIsReady(version) ==
    \/ DOMAIN version.Dependencies # {}
    \/ DOMAIN version.Info.Dependencies = {}

(***************************************************************************)
(* FilePerformer.Get: the stored row if there is one and it is ready, else *)
(* nil (the empty sequence).                                               *)
(***************************************************************************)
FilePerformerGet ==
    IF fileRow = <<>> \/ ~fileIsReady(fileRow[1]) THEN <<>> ELSE fileRow

(***************************************************************************)
(* GetFile: filePool.ProcessKey(id).AwaitTimeout(1 s) as seen when it      *)
(* returns.  A hit of Get is returned at once; on a miss the first call    *)
(* registers the Future and hands the id to a worker; while the Future is  *)
(* pending the call times out, once it is resolved the call returns its    *)
(* result.                                                                 *)
(***************************************************************************)
GetFile ==
    /\ fpc # "off"
    /\ IF FilePerformerGet # <<>>
       THEN /\ served' = [src |-> "cache", result |-> Result(FilePerformerGet, "nil")]
            /\ UNCHANGED <<fileFuture, fpc>>
       ELSE IF fileFuture.state = "none"
       THEN /\ fileFuture' = [fileFuture EXCEPT !.state = "pending"]
            /\ fpc' = "perform"
            /\ served' = [src |-> "timeout", result |-> Result(<<>>, TimeoutError)]
       ELSE IF fileFuture.state = "pending"
       THEN /\ served' = [src |-> "timeout", result |-> Result(<<>>, TimeoutError)]
            /\ UNCHANGED <<fileFuture, fpc>>
       ELSE /\ served' = [src |-> "future", result |-> fileFuture.result]
            /\ UNCHANGED <<fileFuture, fpc>>
    /\ UNCHANGED fileRow
    /\ UNCHANGED <<poolVars, resolveVars, expireVars, feedVars, sweepVars>>

(***************************************************************************)
(* FilePerformer.Perform up to the fan-out of the root: DbGetFile, then    *)
(* version.Info.GatherDependencies(version, true) on the row read.         *)
(***************************************************************************)
FilePerformerPerform ==
    /\ fpc = "perform"
    /\ IF fileRow = <<>>
       THEN /\ fpc' = "finish"
            /\ UNCHANGED <<parent, stack, fetches, rpc>>
       ELSE /\ fpc' = "gather"
            /\ parent' = fileRow[1]
            /\ \E edges \in SiblingOrders(fileRow[1].Info, TRUE) :
                   stack' = IF Len(edges) > 0 THEN <<Frame(edges)>> ELSE <<>>
            /\ fetches' = FanOutAll(NoFetches, fileRow[1].Info, TRUE)
            /\ rpc' = "run"
    /\ UNCHANGED <<pkgDeps, fault, lastEdge, prev, vulnQuery, expansions>>
    /\ UNCHANGED <<pkgDevDeps, alsoDev, versionRaw, latestTag, extraVersions>>
    /\ UNCHANGED <<fileRow, fileFuture, served>>
    /\ UNCHANGED <<poolVars, expireVars, feedVars, sweepVars>>

(***************************************************************************)
(* Perform has returned Result{Data: version}: work() calls                *)
(* FilePerformer.Put, whose DbPutFile may fail (logged only).              *)
(***************************************************************************)
FilePerformerPut ==
    /\ fpc = "gather"
    /\ rpc = "done"
    /\ \E ok \in BOOLEAN : fileRow' = IF ok THEN <<parent>> ELSE fileRow
    /\ fpc' = "finish"
    /\ UNCHANGED <<fileFuture, served>>
    /\ UNCHANGED <<poolVars, resolveVars, expireVars, feedVars, sweepVars>>

(***************************************************************************)
(* futureMap.finish: the Future of the id is resolved with Perform's       *)
(* result and stays in the registry.                                       *)
(***************************************************************************)
fileFinish ==
    /\ fpc = "finish"
    /\ fileFuture' = [state |-> "resolved",
                      result |-> IF rpc = "done" THEN Result(<<parent>>, "nil")
                                 ELSE Result(<<>>, "sql: no rows in result set")]
    /\ fpc' = "idle"
    /\ UNCHANGED <<fileRow, served>>
    /\ UNCHANGED <<poolVars, resolveVars, expireVars, feedVars, sweepVars>>

FileInit ==
    /\ \E rootDeps \in DepMaps(Pkgs \ {RootName}, {"*"}, Cardinality(Pkgs)) :
       \E childDeps \in [Pkgs \ {RootName} -> DepMaps(Pkgs, {"*"}, 1)] :
           /\ \A n \in Pkgs \ {RootName} : n \notin DOMAIN childDeps[n]
           /\ pkgDeps = (RootName :> rootDeps) @@ childDeps
    /\ \E rootDeps \in DepMaps(Pkgs \ {RootName}, {"*"}, Cardinality(Pkgs)) :
           pkgDevDeps = (RootName :> rootDeps) @@ [n \in Pkgs \ {RootName} |-> EmptyMap]
    /\ alsoDev = TRUE
    /\ versionRaw = ""
    /\ latestTag = VersionString(MaxVer)
    /\ extraVersions = {}
    /\ expansions = 0
    /\ fault \in {f \in Faults : f.kind \in {"none", "fetch"}}
    /\ parent = NewVersion(ZeroVersionInfo)
    /\ stack = <<>>
    /\ rpc = "idle"
    /\ lastEdge = NoEdge
    /\ prev = <<>>
    /\ fetches = NoFetches
    /\ vulnQuery = NoQuery

FileNext ==
    \/ uploadHandler
    \/ GetFile
    \/ FilePerformerPerform
    \/ ProcessEdge
    \/ GatherReturn
    \/ FilePerformerPut
    \/ fileFinish

(***************************************************************************)
(* The vulnerability feed: NumPages pages of PageSize records, newest      *)
(* first; record 1 is the newest.  Every later page is empty.              *)
(***************************************************************************)
NumPages == 2
PageSize == 2
MaxRuns == 3

Records == 1..(NumPages * PageSize)

FeedPage(p) ==
    IF p \in 1..NumPages
    THEN [j \in 1..PageSize |-> (p - 1) * PageSize + j]
    ELSE <<>>

(***************************************************************************)
(* DbLastVulnerability: the id of the row with the latest publication      *)
(* time, 0 (nil) for an empty table.                                       *)
(***************************************************************************)
DbLastVulnerability ==
    IF vulnDb = {} THEN 0
    ELSE CHOOSE r \in vulnDb : \A q \in vulnDb : r <= q

FeedOff ==
    /\ vulnDb = {}
    /\ upc = "off"
    /\ lastKnown = 0
    /\ page = 0
    /\ vulnPage = <<>>
    /\ idx = 0
    /\ requested = <<>>
    /\ putTried = {}
    /\ stop = "none"
    /\ putFailed = FALSE
    /\ runs = 0

FeedInit ==
    /\ vulnDb = {}
    /\ upc = "idle"
    /\ lastKnown = 0
    /\ page = 0
    /\ vulnPage = <<>>
    /\ idx = 0
    /\ requested = <<>>
    /\ putTried = {}
    /\ stop = "none"
    /\ putFailed = FALSE
    /\ runs = 0

(***************************************************************************)
(* UpdateVulnerabilities up to the loop: DbLastVulnerability, whose error  *)
(* ends the run, then page := 1.                                           *)
(***************************************************************************)
UpdateVulnerabilities ==
    /\ upc = "idle"
    /\ runs < MaxRuns
    /\ runs' = runs + 1
    /\ requested' = <<>>
    /\ putTried' = {}
    /\ vulnPage' = <<>>
    /\ idx' = 0
    /\ \E ok \in BOOLEAN :
          IF ok
          THEN /\ lastKnown' = DbLastVulnerability
               /\ page' = 1
               /\ upc' = "fetch"
               /\ stop' = "none"
          ELSE /\ upc' = "idle"
               /\ stop' = "last"
               /\ UNCHANGED <<lastKnown, page>>
    /\ UNCHANGED <<vulnDb, putFailed>>
    /\ UNCHANGED <<poolVars, resolveVars, expireVars, fileVars, sweepVars>>

(***************************************************************************)
(* GetVulnerabilities(page) and the two tests that follow it.  A response  *)
(* whose status is not "ok" comes back as (nil, nil), errors.Wrap of a nil *)
(* error being nil, and is taken for an empty page.                        *)
(***************************************************************************)
GetVulnerabilities ==
    /\ upc = "fetch"
    /\ requested' = Append(requested, page)
    /\ \E outcome \in {"ok", "status", "error"} :
          LET fetched == IF outcome = "ok" THEN FeedPage(page) ELSE <<>> IN
          IF outcome = "error"
          THEN /\ upc' = "idle"
               /\ stop' = "error"
               /\ UNCHANGED <<vulnPage, idx>>
          ELSE IF Len(fetched) = 0
          THEN /\ upc' = "idle"
               /\ stop' = IF outcome = "ok" THEN "empty" ELSE "status"
               /\ vulnPage' = fetched
               /\ UNCHANGED idx
          ELSE /\ upc' = "records"
               /\ vulnPage' = fetched
               /\ idx' = 1
               /\ UNCHANGED stop
    /\ UNCHANGED <<vulnDb, lastKnown, page, putTried, putFailed, runs>>
    /\ UNCHANGED <<poolVars, resolveVars, expireVars, fileVars, sweepVars>>

PutRecord_stopsOnFailedPut ==
    /\ upc = "records"
    /\ LET vulnerability == vulnPage[idx] IN
       IF lastKnown # 0 /\ vulnerability = lastKnown
       THEN /\ upc' = "idle"
            /\ stop' = "known"
            /\ UNCHANGED <<vulnDb, page, idx, putTried, putFailed>>
       ELSE \E ok \in BOOLEAN :
            LET stored == ok /\ vulnerability \notin vulnDb IN
            /\ vulnDb' = IF stored THEN vulnDb \cup {vulnerability} ELSE vulnDb
            /\ putFailed' = (putFailed \/ (~ok /\ vulnerability \notin vulnDb))
            /\ putTried' = putTried \cup {vulnerability}
            /\ IF ~stored
               THEN /\ upc' = "idle"
                    /\ stop' = "put"
                    /\ UNCHANGED <<idx, page>>
               ELSE IF idx < Len(vulnPage)
               THEN /\ idx' = idx + 1
                    /\ UNCHANGED <<upc, page, stop>>
               ELSE /\ page' = page + 1
                    /\ upc' = "fetch"
                    /\ UNCHANGED <<idx, stop>>
    /\ UNCHANGED <<lastKnown, vulnPage, requested, runs>>
    /\ UNCHANGED <<poolVars, resolveVars, expireVars, fileVars, sweepVars>>

(***************************************************************************)
(* One iteration of `for _, vulnerability := range vulnerabilities`: the   *)
(* known id ends the run; else DbPutVulnerability, an INSERT that fails    *)
(* for an id the table has (unique index) or for any other reason, and     *)
(* whose error is only logged.  After the last record, page++.             *)
(***************************************************************************)
PutRecord ==
    /\ upc = "records"
    /\ LET vulnerability == vulnPage[idx] IN
       IF lastKnown # 0 /\ vulnerability = lastKnown
       THEN /\ upc' = "idle"
            /\ stop' = "known"
            /\ UNCHANGED <<vulnDb, page, idx, putTried, putFailed>>
       ELSE \E ok \in BOOLEAN :
            LET stored == ok /\ vulnerability \notin vulnDb IN
            /\ vulnDb' = IF stored THEN vulnDb \cup {vulnerability} ELSE vulnDb
            /\ putFailed' = (putFailed \/ (~ok /\ vulnerability \notin vulnDb))
            /\ putTried' = putTried \cup {vulnerability}
            /\ IF idx < Len(vulnPage)
               THEN /\ idx' = idx + 1
                    /\ UNCHANGED <<upc, page>>
               ELSE /\ page' = page + 1
                    /\ upc' = "fetch"
                    /\ UNCHANGED idx
            /\ UNCHANGED stop
    /\ UNCHANGED <<lastKnown, vulnPage, requested, runs>>
    /\ UNCHANGED <<poolVars, resolveVars, expireVars, fileVars, sweepVars>>

FeedNext ==
    \/ UpdateVulnerabilities
    \/ GetVulnerabilities
    \/ PutRecord

(***************************************************************************)
(* The tables the expiry sweep runs over.  Time is in hours up to          *)
(* MaxClock; a row is put with an expire_time 1 .. MaxTtl hours ahead      *)
(* (calcExpire gives now + 1 h .. now + 24 h).                              *)
(***************************************************************************)
MaxClock == 2
MaxTtl == 1

SweepOff ==
    /\ clock = 0
    /\ packageRows = [k \in Keys |-> 0]
    /\ versionRows = [k \in Keys |-> 0]
    /\ spc = "off"
    /\ sweepNow = 0
    /\ removed = {}

SweepInit ==
    /\ clock = 0
    /\ packageRows = [k \in Keys |-> 0]
    /\ versionRows = [k \in Keys |-> 0]
    /\ spc = "idle"
    /\ sweepNow = 0
    /\ removed = {}

Tick ==
    /\ spc # "off"
    /\ clock < MaxClock
    /\ clock' = clock + 1
    /\ UNCHANGED <<packageRows, versionRows, spc, sweepNow, removed>>
    /\ UNCHANGED <<poolVars, resolveVars, expireVars, fileVars, feedVars>>

(***************************************************************************)
(* DbPutPackage: an INSERT, which the unique index lets through only for a *)
(* name the table does not have.                                           *)
(***************************************************************************)
DbPutPackage(name, ttl) ==
    /\ spc # "off"
    /\ packageRows[name] = 0
    /\ packageRows' = [packageRows EXCEPT ![name] = clock + ttl]
    /\ UNCHANGED <<clock, versionRows, spc, sweepNow, removed>>
    /\ UNCHANGED <<poolVars, resolveVars, expireVars, fileVars, feedVars>>

(***************************************************************************)
(* DbPutVersion: the same for the versions table.                          *)
(***************************************************************************)
DbPutVersion(key, ttl) ==
    /\ spc # "off"
    /\ versionRows[key] = 0
    /\ versionRows' = [versionRows EXCEPT ![key] = clock + ttl]
    /\ UNCHANGED <<clock, packageRows, spc, sweepNow, removed>>
    /\ UNCHANGED <<poolVars, resolveVars, expireVars, fileVars, feedVars>>

(***************************************************************************)
(* The rows of a table a DELETE ... WHERE expire_time < now removes.       *)
(***************************************************************************)
Expired(rows, t) == {k \in Keys : rows[k] # 0 /\ rows[k] < t}

expirePackages_inclusive ==
    /\ spc = "idle"
    /\ sweepNow' = clock
    /\ packageRows' = [k \in Keys |->
                          IF packageRows[k] # 0 /\ packageRows[k] <= clock
                          THEN 0 ELSE packageRows[k]]
    /\ removed' = IF \E k \in Keys : packageRows[k] # 0 /\ packageRows[k] <= clock
                   THEN {"packages"} ELSE {}
    /\ spc' = "versions"
    /\ UNCHANGED <<clock, versionRows>>
    /\ UNCHANGED <<poolVars, resolveVars, expireVars, fileVars, feedVars>>

(***************************************************************************)
(* expire(), first statement: now := time.Now() and the DELETE on          *)
(* packages.                                                               *)
(***************************************************************************)
expirePackages ==
    /\ spc = "idle"
    /\ sweepNow' = clock
    /\ packageRows' = [k \in Keys |->
                          IF k \in Expired(packageRows, clock)
                          THEN 0 ELSE packageRows[k]]
    /\ removed' = IF Expired(packageRows, clock) # {} THEN {"packages"} ELSE {}
    /\ spc' = "versions"
    /\ UNCHANGED <<clock, versionRows>>
    /\ UNCHANGED <<poolVars, resolveVars, expireVars, fileVars, feedVars>>

(***************************************************************************)
(* expire(), second statement: the DELETE on versions, with the same now.  *)
(***************************************************************************)
expireVersions ==
    /\ spc = "versions"
    /\ versionRows' = [k \in Keys |->
                          IF k \in Expired(versionRows, sweepNow)
                          THEN 0 ELSE versionRows[k]]
    /\ removed' = IF Expired(versionRows, sweepNow) # {}
                   THEN removed \cup {"versions"} ELSE removed
    /\ spc' = "idle"
    /\ UNCHANGED <<clock, packageRows, sweepNow>>
    /\ UNCHANGED <<poolVars, resolveVars, expireVars, fileVars, feedVars>>

SweepNext ==
    \/ Tick
    \/ \E k \in Keys, ttl \in 1..MaxTtl : DbPutPackage(k, ttl)
    \/ \E k \in Keys, ttl \in 1..MaxTtl : DbPutVersion(k, ttl)
    \/ uploadHandler
    \/ expirePackages
    \/ expireVersions

OtherOff == FileOff /\ FeedOff /\ SweepOff

(***************************************************************************)
(* Specifications: the pool on its own, the pool under the scheduler's     *)
(* fairness, and the resolver on its own.                                  *)
(***************************************************************************)
Init == PoolInit /\ ResolveOff /\ ExpireOff /\ OtherOff

Next == PoolNext

Spec == Init /\ [][Next]_vars

(***************************************************************************)
(* The scheduler runs every goroutine that can take a step, every timer    *)
(* fires and every Perform returns; callers arriving and rows expiring are *)
(* the environment's choice.                                               *)
(***************************************************************************)
CallerStep(c) ==
    \/ getOrCreate(c)
    \/ \E w \in Workers : Enqueue(c, w)
    \/ \E timed \in BOOLEAN : Await(c, timed)
    \/ TimerFires(c)
    \/ TimeoutReturn(c)
    \/ \E w \in Workers : Send(w, c)

WorkerStep(w) ==
    \/ \E r \in PerformResults : Perform(w, r)
    \/ \E ok \in BOOLEAN : Put(w, ok)
    \/ finish(w)
    \/ Resolve(w)
    \/ \E c \in Callers : Send(w, c)
    \/ ResolveReturn(w)

FairSpec ==
    /\ Init /\ [][Next]_vars
    /\ \A c \in Callers : WF_vars(CallerStep(c))
    /\ \A w \in Workers : WF_vars(WorkerStep(w))

(***************************************************************************)
(* packagePool as its callers use it: GetPackageInfo and the fan-out of    *)
(* GatherDependencies, run by workers of versionPool and filePool, call    *)
(* ProcessKey and Await; AwaitTimeout is never called on this pool.  A row  *)
(* that is missing when Get looks stands for an expired one too.           *)
(***************************************************************************)
(***************************************************************************)
(* future.Await() of GetPackageInfo, on the Future ProcessKey has just     *)
(* returned, and of the await loop, on the Future taken from the slice.    *)
(***************************************************************************)
AwaitPackageFuture(c) ==
    /\ gfut[c] = NoGather \/ gfut[c].join
    /\ Await(c, FALSE)

NestedNext ==
    \/ \E c \in Callers, key \in Keys : ProcessKey(c, key)
    \/ \E c \in Callers : getOrCreate(c)
    \/ \E c \in Callers, w \in Workers : Enqueue(c, w)
    \/ \E c \in Callers : AwaitPackageFuture(c)
    \/ \E c \in Callers : AppendFuture(c)
    \/ \E c \in Callers : RangeFutures(c)
    \/ \E c \in Callers : Recurse(c)
    \/ \E c \in Callers : GatherDone(c)
    \/ \E w \in Workers, r \in PerformResults : Perform(w, r)
    \/ \E w \in Workers, ok \in BOOLEAN : Put(w, ok)
    \/ \E w \in Workers : finish(w)
    \/ \E w \in Workers : Resolve(w)
    \/ \E w \in Workers, c \in Callers : Send(w, c)
    \/ \E w \in Workers : ResolveReturn(w)

NestedCallerStep(c) ==
    \/ getOrCreate(c)
    \/ \E w \in Workers : Enqueue(c, w)
    \/ AwaitPackageFuture(c)
    \/ AppendFuture(c)
    \/ RangeFutures(c)
    \/ Recurse(c)
    \/ GatherDone(c)
    \/ \E w \in Workers : Send(w, c)

NestedSpec == Init /\ [][NestedNext]_vars

ResolveSpecInit ==
    /\ cache = [k \in Keys |-> "nil"] /\ PoolStart
    /\ ResolveInit
    /\ ExpireOff
    /\ OtherOff

ResolveSpec == ResolveSpecInit /\ [][ResolveNext]_vars

(***************************************************************************)
(* The two callers of VersionInfo.GatherDependencies on a root:            *)
(* PackageInfo.GatherDependencies (alsoDev = false, then the               *)
(* vulnerabilities) and FilePerformer.Perform (alsoDev = true, no          *)
(* vulnerabilities), over registries whose packages have devDependencies.  *)
(***************************************************************************)
DevInit ==
    /\ \E rootDeps \in DepMaps(Pkgs \ {RootName}, {"*"}, Cardinality(Pkgs)) :
       \E childDeps \in [Pkgs \ {RootName} -> DepMaps(Pkgs, {"*"}, 1)] :
           /\ \A n \in Pkgs \ {RootName} : n \notin DOMAIN childDeps[n]
           /\ pkgDeps = (RootName :> rootDeps) @@ childDeps
    /\ \E rootDeps \in DepMaps(Pkgs \ {RootName}, {"*"}, Cardinality(Pkgs)) :
       \E childDeps \in [Pkgs \ {RootName} -> DepMaps(Pkgs, {"*"}, 1)] :
           /\ \A n \in Pkgs \ {RootName} : n \notin DOMAIN childDeps[n]
           /\ pkgDevDeps = (RootName :> rootDeps) @@ childDeps
    /\ alsoDev \in BOOLEAN
    /\ versionRaw = ""
    /\ latestTag = VersionString(MaxVer)
    /\ extraVersions = {}
    /\ expansions = 0
    /\ fault = NoFault
    /\ parent = NewVersion(VersionInfo(RootName, MaxVer))
    /\ stack = <<>>
    /\ rpc = "idle"
    /\ lastEdge = NoEdge
    /\ prev = <<>>
    /\ fetches = NoFetches
    /\ vulnQuery = NoQuery

DevNext ==
    \/ GatherDependencies
    \/ ProcessEdge
    \/ GatherReturn
    \/ GatherVulnerabilities

DevSpecInit ==
    /\ cache = [k \in Keys |-> "nil"] /\ PoolStart
    /\ DevInit
    /\ ExpireOff
    /\ OtherOff

DevSpec == DevSpecInit /\ [][DevNext]_vars

(***************************************************************************)
(* PackageInfo.GatherDependencies for every kind of request: an exact      *)
(* version string (published, unpublished, or a key that is no semver      *)
(* version) or "" for the latest tag, over package metadata whose latest   *)
(* tag may be missing or name a version the package does not have.         *)
(***************************************************************************)
RootRanges == {"*", "^" \o VersionString(1)}

RootInit ==
    /\ \E rootDeps \in DepMaps(Pkgs \ {RootName}, RootRanges, Cardinality(Pkgs)) :
       \E childDeps \in [Pkgs \ {RootName} -> DepMaps(Pkgs, RootRanges, 1)] :
           /\ \A n \in Pkgs \ {RootName} : n \notin DOMAIN childDeps[n]
           /\ pkgDeps = (RootName :> rootDeps) @@ childDeps
    /\ pkgDevDeps = [n \in Pkgs |-> EmptyMap]
    /\ alsoDev = FALSE
    /\ versionRaw \in {""} \cup Published \cup {Unpublished, Malformed}
    /\ latestTag \in {VersionString(MaxVer), "", Unpublished}
    /\ extraVersions \in SUBSET {Malformed}
    /\ expansions = 0
    /\ fault = NoFault
    /\ parent = NewVersion(ZeroVersionInfo)
    /\ stack = <<>>
    /\ rpc = "idle"
    /\ lastEdge = NoEdge
    /\ prev = <<>>
    /\ fetches = NoFetches
    /\ vulnQuery = NoQuery

RootNext ==
    \/ GatherDependencies
    \/ ProcessEdge
    \/ GatherReturn
    \/ GatherVulnerabilities

RootSpecInit ==
    /\ cache = [k \in Keys |-> "nil"] /\ PoolStart
    /\ RootInit
    /\ ExpireOff
    /\ OtherOff

RootSpec == RootSpecInit /\ [][RootNext]_vars

FileSpecInit ==
    /\ cache = [k \in Keys |-> "nil"] /\ PoolStart
    /\ FileInit
    /\ ExpireOff
    /\ FileStart
    /\ FeedOff
    /\ SweepOff

FileSpec == FileSpecInit /\ [][FileNext]_vars

FeedSpecInit ==
    /\ cache = [k \in Keys |-> "nil"] /\ PoolStart
    /\ ResolveOff
    /\ ExpireOff
    /\ FileOff
    /\ FeedInit
    /\ SweepOff

FeedSpec == FeedSpecInit /\ [][FeedNext]_vars

(***************************************************************************)
(* The sweep next to the writers of the tables; the vulnerabilities table  *)
(* is as a completed update run has left it.                               *)
(***************************************************************************)
SweepSpecInit ==
    /\ cache = [k \in Keys |-> "nil"] /\ PoolStart
    /\ ResolveOff
    /\ ExpireOff
    /\ FileStart
    /\ vulnDb = Records
    /\ upc = "off"
    /\ lastKnown = 0
    /\ page = 0
    /\ vulnPage = <<>>
    /\ idx = 0
    /\ requested = <<>>
    /\ putTried = {}
    /\ stop = "none"
    /\ putFailed = FALSE
    /\ runs = 0
    /\ SweepInit

SweepSpec == SweepSpecInit /\ [][SweepNext]_vars

ExpireSpecInit ==
    /\ cache = [k \in Keys |-> "nil"] /\ PoolStart
    /\ ResolveOff
    /\ ExpireInit
    /\ OtherOff

ExpireSpec == ExpireSpecInit /\ [][ExpireNext]_vars

(***************************************************************************)
(* Properties of the pool.                                                 *)
(***************************************************************************)
HasFuture(c) == pc[c] \in {"await", "recv", "select", "timedout", "done"}

Waiting(key) ==
    {c \in Callers : /\ ckey[c] = key
                     /\ cfut[c].kind = "registry"
                     /\ pc[c] \in {"recv", "select"}}

TimeoutResult == <<Result("nil", TimeoutError)>>

\* the caller's AwaitTimeout has returned TimeoutError
TimedOut(c) == pc[c] = "done" /\ got[c] = TimeoutResult

\* C1: the callers that miss the cache for a key cause one Perform of the
\* key and no more, no two workers are inside Perform for the same key, and
\* every such caller that gets a result from its Future gets the Result the
\* one Perform produced (so all of them get the same).
C1_DedupOnePerform ==
    /\ \A key \in Keys : performCount[key] <= 1
    /\ \A w1, w2 \in Workers :
           (w1 # w2 /\ wpc[w1] = "perform" /\ wpc[w2] = "perform")
               => wkey[w1] # wkey[w2]
    /\ \A c \in Callers :
           (pc[c] = "done" /\ cfut[c].kind = "registry" /\ got[c] # TimeoutResult)
               => /\ performCount[ckey[c]] = 1
                  /\ got[c] = futures[ckey[c]].result
    /\ \A c1, c2 \in Callers :
           (/\ pc[c1] = "done" /\ pc[c2] = "done" /\ ckey[c1] = ckey[c2]
            /\ cfut[c1].kind = "registry" /\ cfut[c2].kind = "registry"
            /\ got[c1] # TimeoutResult /\ got[c2] # TimeoutResult)
               => got[c1] = got[c2]

C1_Witness ==
    \E c1, c2 \in Callers :
        /\ c1 # c2 /\ ckey[c1] = ckey[c2]
        /\ pc[c1] = "done" /\ pc[c2] = "done"
        /\ cfut[c1].kind = "registry" /\ cfut[c2].kind = "registry"
        /\ ~hist[c1].afterFinish /\ ~hist[c2].afterFinish
        /\ got[c1] = <<Result("v1", "nil")>>
        /\ performCount[ckey[c1]] = 1

\* C2: a caller waiting in AwaitTimeout always gets to return.
C2_AwaitTimeoutReturns ==
    \A c \in Callers : (pc[c] = "select") ~> (pc[c] = "done")

\* C3: a waiter that Await put to sleep returns the resolved result; while
\* Resolve sends it has a send left for every waiter still asleep, and when
\* it is back no waiter is asleep; a call that finds the result set returns
\* it and never waits on the channel.
C3_BroadcastToAllWaiters ==
    /\ \A c \in Callers :
           (pc[c] = "done" /\ cfut[c].kind = "registry" /\ got[c] # TimeoutResult)
               => got[c] = futures[ckey[c]].result
    /\ \A w \in Workers :
           wpc[w] = "send" => wsends[w] >= Cardinality(Waiting(wkey[w]))
    /\ \A key \in Keys :
           (futures[key].result # <<>> /\ futMu[key] = 0) => Waiting(key) = {}
    /\ \A c \in Callers :
           cfut[c].kind = "resolved"
               => /\ pc[c] \in {"await", "done"}
                  /\ pc[c] = "done" => got[c] = cfut[c].result

C3_Witness ==
    \E w \in Workers, c1, c2 \in Callers :
        /\ wpc[w] = "send" /\ wsends[w] = 1 /\ futures[wkey[w]].n = 2
        /\ ckey[c1] = wkey[w] /\ pc[c1] = "done" /\ cfut[c1].kind = "registry"
        /\ got[c1] = wres[w]
        /\ c2 \in Waiting(wkey[w]) /\ pc[c2] = "recv"

\* C4: a timeout does not cancel the computation.  The step that returns
\* TimeoutError leaves the worker, the cache and the registry entry alone;
\* once the worker has finished the key with a value, that value was handed
\* to Put and is the result of the key's Future, and a ProcessKey issued
\* after that returns the value, with still only one Perform of the key.
C4_TimeoutDoesNotCancel ==
    /\ [][\A c \in Callers :
            (pc[c] = "timedout" /\ pc'[c] = "done")
                => /\ got'[c] = TimeoutResult
                   /\ UNCHANGED <<wpc, wkey, wres, cache, performCount>>
                   /\ futures'[ckey[c]].exists
                   /\ futures'[ckey[c]].result = futures[ckey[c]].result]_vars
    /\ [](\A d \in Callers :
            (/\ TimedOut(d) /\ Finished(ckey[d])
             /\ futures[ckey[d]].result[1].Error = "nil")
                => /\ putCalled[ckey[d]]
                   /\ performCount[ckey[d]] = 1)
    /\ [](\A c, d \in Callers :
            (/\ TimedOut(d) /\ ckey[c] = ckey[d]
             /\ hist[c].afterFinish /\ pc[c] = "done"
             /\ futures[ckey[c]].result[1].Error = "nil")
                => /\ got[c] = futures[ckey[c]].result
                   /\ performCount[ckey[c]] = 1)

C4_Witness ==
    \E c, d \in Callers :
        /\ TimedOut(d) /\ ckey[c] = ckey[d]
        /\ hist[c].afterFinish /\ pc[c] = "done"
        /\ got[c] = <<Result("v1", "nil")>>
        /\ putCalled[ckey[c]]
        /\ performCount[ckey[c]] = 1

\* C5: a ProcessKey call that finds the key cached returns an already
\* resolved Future carrying the cached value and never enqueues the key;
\* Perform starts only for a key that is not cached.
C5_CacheFirst ==
    /\ [][\A c \in Callers :
            (pc[c] \in {"idle", "done"} /\ pc'[c] \notin {"idle", "done"}
             /\ cache[ckey'[c]] # "nil")
                => /\ cfut'[c] = NewFutureResolved(Result(cache[ckey'[c]], "nil"))
                   /\ pc'[c] = "await"
                   /\ UNCHANGED <<futures, performCount, wpc>>]_vars
    /\ [][\A key \in Keys :
            performCount'[key] # performCount[key] => cache[key] = "nil"]_vars
    /\ [](\A c \in Callers :
            cfut[c].kind = "resolved"
                => /\ pc[c] \in {"await", "done"}
                   /\ cfut[c].result[1].Error = "nil"
                   /\ cfut[c].result[1].Data # "nil"
                   /\ pc[c] = "done" => got[c] = cfut[c].result)

C5_Witness ==
    \E c \in Callers :
        /\ cfut[c].kind = "resolved" /\ pc[c] = "done"
        /\ got[c] = <<Result("v1", "nil")>>
        /\ performCount[ckey[c]] = 1

\* C6: a caller of ProcessKey is never held up at the work queue waiting
\* for a worker to become free.
C6_CallerNeverWaitsForWorker ==
    \A c \in Callers :
        pc[c] = "enqueue" => \E w \in Workers : wpc[w] = "idle"

\* C7: a ProcessKey issued after the key's Future was resolved with an
\* error gets its result from a new Perform of the key.
C7_RetryAfterError ==
    \A c \in Callers :
        (/\ hist[c].afterFinish
         /\ futures[ckey[c]].result[1].Error # "nil"
         /\ pc[c] = "done") => performCount[ckey[c]] >= 2

\* C19: a worker that enters futureMap.finish gets back to reading the
\* work queue, with the registry mutex released, whatever the waiters'
\* timers do.
C19_WorkerLeavesFinish ==
    \A w \in Workers :
        (wpc[w] = "finish") ~> (wpc[w] = "idle" /\ mapMu # w)

\* C20: a worker whose Perform returned a value calls Put before it
\* resolves the Future, so a waiter holding a successful result finds Put
\* called; after an error Put is not called and the Future gets the error;
\* a Put that fails leaves the result as Perform returned it, and that is
\* what the Future and the waiters get.
C20_PutBeforeResolve ==
    /\ [][\A w \in Workers :
            /\ (wpc[w] = "perform" /\ wpc'[w] # "perform") =>
                   IF wres'[w][1].Error = "nil"
                   THEN wpc'[w] = "put" /\ futures'[wkey[w]].result = <<>>
                   ELSE wpc'[w] = "finish" /\ ~putCalled'[wkey[w]]
            /\ (wpc[w] = "put" /\ wpc'[w] # "put") =>
                   /\ wres'[w] = wres[w]
                   /\ putCalled'[wkey[w]]
                   /\ futures'[wkey[w]].result = <<>>
            /\ (wpc[w] = "resolve" /\ wpc'[w] # "resolve") =>
                   futures'[wkey[w]].result = wres[w]
       ]_vars
    /\ [][\A c \in Callers :
            (pc[c] \in {"recv", "select"} /\ pc'[c] = "done") =>
                \E w \in Workers : wkey[w] = ckey[c] /\ got'[c] = wres[w]
       ]_vars
    /\ [](\A key \in Keys :
            futures[key].result # <<>> =>
                (futures[key].result[1].Error = "nil" <=> putCalled[key]))
    /\ [](\A c \in Callers :
            (/\ pc[c] = "done" /\ cfut[c].kind = "registry"
             /\ got[c][1].Error = "nil") => putCalled[ckey[c]])

C20_Witness ==
    \E c \in Callers :
        /\ pc[c] = "done" /\ cfut[c].kind = "registry"
        /\ got[c] = <<Result("v1", "nil")>>
        /\ putCalled[ckey[c]]
        /\ cache[ckey[c]] = "nil"
        /\ \E w \in Workers : wpc[w] = "send" /\ wkey[w] = ckey[c]

\* the step is the head of a ProcessKey call of caller c
Calls(c) == pc[c] \in {"idle", "done"} /\ pc'[c] \notin {"idle", "done"}

\* C21 as stated: a ProcessKey for a key whose registry entry is resolved
\* returns the registry's Future (and so needs no Get).
C21_ResolvedEntryBypassesCache ==
    \A c \in Callers :
        (hist[c].afterFinish /\ HasFuture(c)) => cfut[c].kind = "registry"

\* C21 amended: a ProcessKey for a key whose registry entry is resolved
\* still starts with Get: when the row is there it returns a new resolved
\* Future made of the row, and only when Get misses the registry's
\* resolved Future, in both cases without a new Perform.
C21_ResolvedEntryAfterCache ==
    /\ [][\A c \in Callers :
            (Calls(c) /\ Finished(ckey'[c])) =>
                /\ cache[ckey'[c]] # "nil" =>
                      /\ cfut'[c] = [kind |-> "resolved",
                                     result |-> <<Result(cache[ckey'[c]], "nil")>>]
                      /\ pc'[c] = "await"
                /\ cache[ckey'[c]] = "nil" => pc'[c] = "getOrCreate"
       ]_vars
    /\ [](\A c \in Callers :
            (hist[c].afterFinish /\ pc[c] \in {"await", "done"}) =>
                /\ performCount[ckey[c]] = 1
                /\ cfut[c].kind = "registry" \/ cfut[c].result[1].Data # "nil"
                /\ pc[c] = "done" =>
                      got[c] = IF cfut[c].kind = "registry"
                               THEN futures[ckey[c]].result ELSE cfut[c].result)

C21_Witness ==
    \E c \in Callers :
        /\ hist[c].afterFinish /\ pc[c] = "done"
        /\ cfut[c].kind = "resolved"
        /\ futures[ckey[c]].result = got[c]

\* C22: a ProcessKey that hits the cache, and the Await on the Future it
\* returns, leave the registry, its locks, the workers and the count of
\* Performs as they were: no entry is created, nothing is enqueued.
C22_CacheHitTouchesNothing ==
    [][\A c \in Callers :
         (\/ Calls(c) /\ cache[ckey'[c]] # "nil"
          \/ cfut[c].kind = "resolved" /\ pc[c] = "await" /\ pc'[c] = "done")
            => /\ futures' = futures
               /\ mapMu' = mapMu /\ futMu' = futMu
               /\ wpc' = wpc /\ wkey' = wkey
               /\ performCount' = performCount
               /\ pc'[c] \in {"await", "done"}
    ]_vars

C22_Witness ==
    \E c \in Callers :
        /\ cfut[c].kind = "resolved" /\ pc[c] = "done"
        /\ got[c] = <<Result("v0", "nil")>>
        /\ ~futures[ckey[c]].exists
        /\ performCount[ckey[c]] = 0
        /\ \A w \in Workers : wpc[w] = "idle"

\* C23: Perform is invoked at most once per key over the life of the pool.
\* A registry entry is never removed and its result never changes, so a
\* ProcessKey issued after finish whose Get misses (the row was evicted by
\* expire, or never written) returns the old resolved Future and the old
\* result; no worker takes the key again.
C23_PerformAtMostOncePerKey ==
    /\ [](\A k \in Keys : performCount[k] <= 1)
    /\ [][\A k \in Keys :
            futures[k].exists =>
                /\ futures'[k].exists
                /\ futures[k].result # <<>> =>
                      futures'[k].result = futures[k].result
       ]_vars
    /\ [](\A c \in Callers :
            (hist[c].afterFinish /\ cfut[c].kind = "registry") =>
                /\ performCount[ckey[c]] = 1
                /\ \A w \in Workers : wpc[w] # "idle" => wkey[w] # ckey[c]
                /\ pc[c] \in {"await", "done"}
                /\ pc[c] = "done" => got[c] = futures[ckey[c]].result)

C23_Witness ==
    \E c \in Callers :
        /\ hist[c].afterFinish /\ cfut[c].kind = "registry"
        /\ pc[c] = "done"
        /\ putCalled[ckey[c]] /\ cache[ckey[c]] = "nil"
        /\ got[c] = <<Result("v1", "nil")>>
        /\ performCount[ckey[c]] = 1

\* the workers inside s.performer.Perform
Performing == {w \in Workers : wpc[w] = "perform"}

\* C24: the Performs in progress are never more than the workers the pool
\* was started with: a Perform starts only in a worker that was waiting on
\* the work queue, one at a time, and that worker takes no other key
\* until its Perform has returned.
C24_PerformsBoundedByWorkers ==
    /\ [](Cardinality(Performing) <= NumWorkers)
    /\ [][/\ \A k \in Keys :
               performCount'[k] # performCount[k] =>
                   /\ performCount'[k] = performCount[k] + 1
                   /\ \E w \in Workers :
                         /\ wpc[w] = "idle" /\ wpc'[w] = "perform"
                         /\ wkey'[w] = k
                         /\ \A v \in Workers \ {w} :
                               wpc'[v] = wpc[v] /\ wkey'[v] = wkey[v]
          /\ \A w \in Workers :
               wpc[w] = "perform" =>
                   /\ wkey'[w] = wkey[w]
                   /\ wpc'[w] \in {"perform", "put", "finish"}
       ]_vars

C24_Witness ==
    /\ Cardinality(Performing) = NumWorkers
    /\ \E c \in Callers : pc[c] = "enqueue"

\* caller c is not blocked: the guard of its next step in NestedCallerStep
CallerCanStep(c) ==
    \/ pc[c] = "getOrCreate" /\ mapMu = 0
    \/ pc[c] = "enqueue" /\ \E w \in Workers : wpc[w] = "idle"
    \/ /\ pc[c] = "await"
       /\ ~gfut[c].join \/ cfut[c].kind = "resolved" \/ futMu[ckey[c]] = 0
    \/ pc[c] = "recv" /\ \E w \in Workers :
           wpc[w] = "send" /\ wsends[w] > 0 /\ wkey[w] = ckey[c]
    \/ pc[c] = "fanout"
    \/ pc[c] = "done" /\ gfut[c].join

\* worker w is not blocked: the guard of its next step in WorkerStep
WorkerCanStep(w) ==
    \/ wpc[w] \in {"perform", "put"}
    \/ wpc[w] = "finish" /\ mapMu = 0
    \/ wpc[w] = "resolve" /\ futMu[wkey[w]] = 0
    \/ wpc[w] = "send" /\ wsends[w] = 0
    \/ wpc[w] = "send" /\ \E c \in Callers :
           pc[c] \in {"recv", "select"} /\ ckey[c] = wkey[w]

\* a step of the program (not of its environment) is possible
NestedProgress ==
    \/ \E c \in Callers : CallerCanStep(c)
    \/ \E w \in Workers : WorkerCanStep(w)

\* the guards above are those of the actions
CanStepIsEnabled ==
    /\ \A c \in Callers : CallerCanStep(c) <=> ENABLED NestedCallerStep(c)
    /\ \A w \in Workers : WorkerCanStep(w) <=> ENABLED WorkerStep(w)

\* steps still ahead of a caller / of a worker before it rests, counted
\* without the steps it may wait for
CallerRank(c) ==
    (CASE pc[c] = "getOrCreate" -> 14 + NumCallers
       [] pc[c] = "enqueue" -> 13 + NumCallers
       [] pc[c] = "await" -> IF gfut[c].join THEN 2 ELSE 7
       [] pc[c] \in {"recv", "fanout"} -> 1
       [] OTHER -> 0)
    + 4 * Len(gfut[c].futs) + (IF gfut[c].join THEN 2 ELSE 0)

WorkerRank(w) ==
    CASE wpc[w] = "perform" -> 5 + NumCallers
      [] wpc[w] = "put" -> 4 + NumCallers
      [] wpc[w] = "finish" -> 3 + NumCallers
      [] wpc[w] = "resolve" -> 2 + NumCallers
      [] wpc[w] = "send" -> 1 + wsends[w]
      [] OTHER -> 0

RECURSIVE SumTo(_, _)
SumTo(f, n) == IF n = 0 THEN 0 ELSE f[n] + SumTo(f, n - 1)

Rank ==
    SumTo([c \in Callers |-> CallerRank(c)], NumCallers)
    + SumTo([w \in Workers |-> WorkerRank(w)], NumWorkers)

\* the resolution of caller c has begun and is not through
Gathering(c) == pc[c] # "idle" /\ ~(pc[c] = "done" /\ gfut[c] = NoGather)

\* C25: nested pool use cannot deadlock.  The callers of packagePool (the
\* workers of versionPool and filePool inside GatherDependencies, and
\* GetPackageInfo) only Await its Futures, and its workers wait on no
\* pool.  So while a caller has a resolution under way some goroutine of
\* the program can step, and every such step brings the program nearer to
\* rest: every resolution that has begun completes, also when every caller
\* is blocked at once and more keys are asked for than there are workers.
C25_NestedUseCompletes ==
    /\ [](\A c \in Callers : Gathering(c) => NestedProgress)
    /\ [][calls' # calls \/ Rank' < Rank]_vars

C25_Witness ==
    \E c \in Callers :
        /\ pc[c] = "done" /\ got[c] # <<>>
        /\ gfut[c] = [futs |-> <<>>, top |-> 0, join |-> TRUE]
        /\ \A k \in 1..(NumWorkers + 1) : performCount[k] = 1

(***************************************************************************)
(* Properties of the resolver.                                             *)
(***************************************************************************)
TotalVersions(deps) ==
    Cardinality(UNION {{<<n, j>> : j \in 1..Len(deps[n])} : n \in DOMAIN deps})

VersionsOf(par, name) ==
    IF name \in DOMAIN par.Dependencies THEN par.Dependencies[name] ELSE <<>>

\* a version string of the list is inside the range the constraint denotes
Covered(versions, constraintRaw) ==
    \E j \in 1..Len(versions) :
        LET major == semverNewVersion(versions[j])
            constraint == semverNewConstraint(constraintRaw)
        IN /\ major # 0 /\ constraint.ok
           /\ \/ constraint.any
              \/ ~constraint.below /\ constraint.major = major
              \/ constraint.below /\ major < constraint.major

\* C8: after a resolution, Stats.Packages is 1 + the number of dependency
\* names and Stats.Versions is 1 + the number of version strings over all
\* the Dependencies lists.
C8_StatsCountDependencies ==
    rpc = "done" =>
        /\ parent.Stats.Packages = 1 + Cardinality(DOMAIN parent.Dependencies)
        /\ parent.Stats.Versions = 1 + TotalVersions(parent.Dependencies)

C8_Witness ==
    /\ rpc = "done"
    /\ parent.Stats.Packages = 3
    /\ parent.Stats.Versions >= 4
    /\ parent.Errors # <<>>

\* C9: processing an edge appends a version to Dependencies[name] only if
\* no version already listed satisfies the edge's constraint; an edge that
\* is added extends the list by one version that satisfies the constraint
\* (so disjoint constraints give two entries); an edge whose constraint is
\* satisfied by a listed version changes neither the Dependencies map nor
\* the statistics nor the publishers and starts no recursion.
C9_AppendOnlyIfUncovered ==
    [][(rpc = "run" /\ stack # <<>>) =>
        LET top == stack[Len(stack)] IN
        (top.i <= Len(top.edges)) =>
            LET name == top.edges[top.i][1]
                constraintRaw == top.edges[top.i][2]
                before == VersionsOf(parent, name)
                after == VersionsOf(parent', name)
            IN /\ (after # before) =>
                      /\ ~Covered(before, constraintRaw)
                      /\ Len(after) = Len(before) + 1
                      /\ SubSeq(after, 1, Len(before)) = before
                      /\ Covered(<<after[Len(after)]>>, constraintRaw)
                      /\ parent'.Stats.Versions = parent.Stats.Versions + 1
               /\ Covered(before, constraintRaw) =>
                      /\ parent'.Dependencies = parent.Dependencies
                      /\ parent'.Stats = parent.Stats
                      /\ parent'.Publishers = parent.Publishers
                      /\ Len(stack') = Len(stack)
               /\ (lastEdge'.outcome = "covered") => Covered(before, constraintRaw)
    ]_vars

C9_Witness ==
    /\ lastEdge.outcome = "covered"
    /\ \E name \in DOMAIN parent.Dependencies :
           /\ Len(parent.Dependencies[name]) = 2
           /\ parent.Dependencies[name][1] # parent.Dependencies[name][2]

SameTree(x, y) ==
    /\ DOMAIN x.Dependencies = DOMAIN y.Dependencies
    /\ \A n \in DOMAIN x.Dependencies :
           {x.Dependencies[n][j] : j \in 1..Len(x.Dependencies[n])}
             = {y.Dependencies[n][j] : j \in 1..Len(y.Dependencies[n])}
    /\ x.Stats = y.Stats
    /\ x.Publishers = y.Publishers

\* C10: two resolutions of the same root over the same registry end in the
\* same tree (dependency names and their version sets, Stats, Publishers),
\* whatever the order in which siblings were processed.
C10_OrderIndependent ==
    (rpc = "done" /\ prev # <<>>) => SameTree(prev[1], parent)

\* the innermost GatherDependencies call is about to process an edge
AtEdge ==
    /\ rpc = "run" /\ stack # <<>>
    /\ stack[Len(stack)].i <= Len(stack[Len(stack)].edges)

CurName == stack[Len(stack)].edges[stack[Len(stack)].i][1]

CurConstraint == stack[Len(stack)].edges[stack[Len(stack)].i][2]

NextSibling == [stack EXCEPT ![Len(stack)].i = @ + 1]

\* the edge fails: the metadata fetch fails, the constraint does not parse,
\* or no published version satisfies it
EdgeFails(name, constraintRaw) ==
    \/ fault.kind = "fetch" /\ fault.name = name
    \/ constraintRaw = Unparseable
    \/ \A v \in Published : ~Covered(<<v>>, constraintRaw)

\* the major number of the highest published version inside the range
SelectedMajor(constraintRaw) ==
    CHOOSE i \in 1..MaxVer :
        /\ Covered(<<VersionString(i)>>, constraintRaw)
        /\ \A j \in 1..MaxVer :
               Covered(<<VersionString(j)>>, constraintRaw) => j <= i

MentionedIn(errors, name) ==
    \E j \in 1..Len(errors) :
        errors[j] \in {"could not get " \o name,
                       "invalid constraint for " \o name,
                       "no matching version for " \o name}

\* C11: processing an edge that fails (fetch error, unparseable constraint,
\* no satisfying version) appends exactly one message to Errors, leaves
\* Dependencies, Stats and Publishers as they were and goes on with the
\* next sibling; so when the walk is over every failing edge of the root
\* is in Errors and every other sibling of the root was processed.
C11_EdgeFailureIsContained ==
    /\ [][(AtEdge /\ EdgeFails(CurName, CurConstraint)) =>
            /\ Len(parent'.Errors) = Len(parent.Errors) + 1
            /\ SubSeq(parent'.Errors, 1, Len(parent.Errors)) = parent.Errors
            /\ MentionedIn(<<parent'.Errors[Len(parent'.Errors)]>>, CurName)
            /\ parent'.Dependencies = parent.Dependencies
            /\ parent'.Stats = parent.Stats
            /\ parent'.Publishers = parent.Publishers
            /\ stack' = NextSibling
       ]_vars
    /\ [](rpc = "done" =>
            \A name \in DOMAIN pkgDeps[RootName] :
                IF EdgeFails(name, pkgDeps[RootName][name])
                THEN MentionedIn(parent.Errors, name)
                ELSE \/ name \in DOMAIN parent.Dependencies
                     \/ /\ fault.kind \in {"os", "cpu"} /\ fault.name = name
                        /\ fault.version =
                             VersionString(SelectedMajor(pkgDeps[RootName][name])))

C11_Witness ==
    /\ Len(stack) = 1 /\ stack[1].i = 3
    /\ EdgeFails(stack[1].edges[1][1], stack[1].edges[1][2])
    /\ Len(parent.Errors) = 1
    /\ lastEdge.outcome = "added"
    /\ lastEdge.name = stack[1].edges[2][1]

\* C14: an edge whose selected version lists operating systems without the
\* target's, or CPUs without the target's, changes nothing in the aggregate
\* (Dependencies, Stats, Publishers, Errors) and starts no recursion.
C14_PlatformMismatchSkipsEdge ==
    [][(AtEdge /\ ~EdgeFails(CurName, CurConstraint)) =>
        LET v == VersionInfo(CurName, SelectedMajor(CurConstraint))
            listed(array, str) == \E j \in 1..Len(array) : array[j] = str
        IN (\/ Len(v.Os) > 0 /\ ~listed(v.Os, Platform.os)
            \/ Len(v.Cpu) > 0 /\ ~listed(v.Cpu, Platform.cpu))
               => /\ parent' = parent
                  /\ stack' = NextSibling
    ]_vars

C14_Witness ==
    /\ lastEdge.outcome = "platform"
    /\ fault.kind = "cpu"
    /\ lastEdge.name = fault.name
    /\ parent.Dependencies # EmptyMap
    /\ fault.name \notin DOMAIN parent.Dependencies

\* the registry holds the cycle a -> b -> a and b is expanded
CycleAB ==
    /\ "b" \in DOMAIN pkgDeps["a"]
    /\ ~EdgeFails("b", pkgDeps["a"]["b"])
    /\ "a" \in DOMAIN pkgDeps["b"]

\* (name, version) pairs that a resolution can still add
Unadded == Cardinality(Pkgs) * MaxVer - TotalVersions(parent.Dependencies)

RECURSIVE EdgesLeft(_)
EdgesLeft(st) ==
    IF st = <<>> THEN 0
    ELSE (Len(st[Len(st)].edges) + 1 - st[Len(st)].i)
           + EdgesLeft(SubSeq(st, 1, Len(st) - 1))

\* C18 as stated: with the cycle a -> b -> a in the registry the
\* resolution of a never returns.
C18_CycleNeverReturns == CycleAB => rpc # "done"

\* C18 amended: with the cycle a -> b -> a in the registry the resolution
\* of a returns: every step of the walk either adds a new (name, version)
\* pair, of which there are finitely many and none is listed twice, or
\* consumes an edge of an open call, or returns from a call.
C18_CycleTerminates ==
    /\ [][(rpc = "run" /\ rpc' = "run") =>
            \/ Unadded' < Unadded
            \/ Unadded' = Unadded /\ EdgesLeft(stack') < EdgesLeft(stack)
            \/ /\ Unadded' = Unadded /\ EdgesLeft(stack') = EdgesLeft(stack)
               /\ Len(stack') < Len(stack)
       ]_vars
    /\ [](/\ Unadded >= 0
          /\ \A n \in DOMAIN parent.Dependencies :
                 \A i, j \in 1..Len(parent.Dependencies[n]) :
                     i # j => parent.Dependencies[n][i] # parent.Dependencies[n][j])

C18_Witness ==
    /\ CycleAB
    /\ rpc = "done"
    /\ "a" \in DOMAIN parent.Dependencies
    /\ "b" \in DOMAIN parent.Dependencies

\* C13: resolving a root without dependencies ends with Stats of one
\* package, one version, the root's own file count and unpacked size, with
\* no dependency, no error, and without a ProcessKey call on the metadata
\* pool for a dependency.
C13_LeafRoot ==
    (rpc \in {"run", "done"} /\ pkgDeps[RootName] = EmptyMap) =>
        /\ parent.Stats.Packages = 1
        /\ parent.Stats.Versions = 1
        /\ parent.Stats.Files = FileCountOf(RootName, MaxVer)
        /\ parent.Stats.DiskSpace = 100 * FileCountOf(RootName, MaxVer)
        /\ parent.Dependencies = EmptyMap
        /\ parent.Errors = <<>>
        /\ \A n \in Pkgs : fetches[n] = 0

C13_Witness ==
    /\ rpc = "done"
    /\ pkgDeps[RootName] = EmptyMap
    /\ pkgDeps["b"] # EmptyMap
    /\ parent.Info.Dist.FileCount = parent.Stats.Files

\* C12 as stated: the root version being in the package metadata, the
\* resolve request never ends in an error.
C12_OnlyRootFailureIsFatal == rpc # "failed"

\* C12 amended: the root version being in the package metadata, the walk
\* over the dependencies never fails, whatever errors it records, and the
\* request returns the tree unless the vulnerability query fails; it
\* returns an error exactly when that query fails.
C12_FailsOnlyOnVulnerabilityQuery ==
    /\ [][/\ rpc = "run" => rpc' \in {"run", "vuln"}
          /\ rpc = "vuln" =>
                /\ rpc' = "failed" <=> vulnQuery'.err
                /\ rpc' = "done" <=> ~vulnQuery'.err
       ]_vars
    /\ [](rpc = "failed" => vulnQuery.err)
    /\ [](rpc = "done" => ~vulnQuery.err /\ parent.Info.Name = RootName)

C12_Witness ==
    /\ rpc = "done"
    /\ Len(parent.Errors) = 2
    /\ parent.Dependencies = EmptyMap

\* the version strings installed for a package name: the root's own version
\* for the root's name, else the versions listed in Dependencies
Installed(name) ==
    IF name = parent.Info.Name THEN {parent.Info.Version}
    ELSE {VersionsOf(parent, name)[j] : j \in 1..Len(VersionsOf(parent, name))}

\* version i.0.0 lies in the range the expression denotes
InRange(i, expr) ==
    \/ expr = "*"
    \/ expr = "^" \o VersionString(i)
    \/ \E n \in (i + 1)..(MaxVer + 1) : expr = "<" \o VersionString(n)

Affected(vulnerability) ==
    \E i \in 1..MaxVer :
        /\ VersionString(i) \in Installed(vulnerability.PackageName)
        /\ \E j \in 1..Len(vulnerability.Semver.Vulnerable) :
               InRange(i, vulnerability.Semver.Vulnerable[j])

Occurrences(seq, x) == Cardinality({j \in 1..Len(seq) : seq[j] = x})

\* C15: after a resolution a vulnerability of the table is in the tree's
\* Vulnerabilities once if an installed version of its package lies in one
\* of its vulnerable ranges and not at all otherwise, and the histogram
\* counts, per severity, the vulnerabilities included.
C15_VulnerabilityMatching ==
    rpc = "done" =>
        /\ \A k \in 1..Len(VulnerabilityRows) :
               Occurrences(parent.Vulnerabilities, VulnerabilityRows[k])
                 = IF Affected(VulnerabilityRows[k]) THEN 1 ELSE 0
        /\ \A j \in 1..Len(parent.Vulnerabilities) :
               Occurrences(VulnerabilityRows, parent.Vulnerabilities[j]) = 1
        /\ LET included(severity) ==
                   Cardinality({k \in 1..Len(VulnerabilityRows) :
                                   /\ Affected(VulnerabilityRows[k])
                                   /\ VulnerabilityRows[k].Severity = severity})
               stats == parent.Stats.VulnerabilityStats
           IN /\ stats.LowCount = included("low")
              /\ stats.MediumCount = included("medium")
              /\ stats.HighCount = included("high")
              /\ stats.CriticalCount = included("critical")
              /\ stats.LowCount + stats.MediumCount + stats.HighCount
                   + stats.CriticalCount = Len(parent.Vulnerabilities)

C15_Witness ==
    /\ rpc = "done"
    /\ VersionsOf(parent, "c") = <<VersionString(MaxVer), VersionString(1)>>
    /\ VersionString(1) \in Installed("b")
    /\ Occurrences(parent.Vulnerabilities, VulnerabilityRows[4]) = 1
    /\ Occurrences(parent.Vulnerabilities, VulnerabilityRows[5]) = 1
    /\ Occurrences(parent.Vulnerabilities, VulnerabilityRows[3]) = 0
    /\ parent.Stats.VulnerabilityStats.CriticalCount = 1

\* the names a GatherDependencies call asks the metadata pool for
FrameNames(f) == {f.edges[j][1] : j \in 1..Len(f.edges)}

Satisfying(constraintRaw) ==
    {i \in 1..MaxVer : Covered(<<VersionString(i)>>, constraintRaw)}

\* C27: for an edge (name, constraint) MaxVersion selects the published
\* version of the child that satisfies the constraint and has the highest
\* precedence, and it is that version the edge adds; when no published
\* version satisfies the constraint one error is recorded and the edge
\* adds nothing.
C27_HighestSatisfyingVersion ==
    /\ [](AtEdge =>
            LET selected == MaxVersion(PackageInfo(CurName), CurConstraint)
                r == CurConstraint
            IN /\ selected.ok <=> Satisfying(r) # {}
               /\ selected.ok =>
                     /\ selected.info.Name = CurName
                     /\ semverNewVersion(selected.info.Version) \in Satisfying(r)
                     /\ \A i \in Satisfying(r) :
                           i <= semverNewVersion(selected.info.Version))
    /\ [][(AtEdge /\ lastEdge' # lastEdge /\ rpc' = "run") =>
            /\ lastEdge'.outcome = "added" =>
                  /\ Satisfying(CurConstraint) # {}
                  /\ LET list == parent'.Dependencies[CurName] IN
                     \A i \in Satisfying(CurConstraint) :
                         i <= semverNewVersion(list[Len(list)])
            /\ Satisfying(CurConstraint) = {} =>
                  /\ lastEdge'.outcome = "error"
                  /\ Len(parent'.Errors) = Len(parent.Errors) + 1
                  /\ parent'.Dependencies = parent.Dependencies
                  /\ Len(stack') = Len(stack)
       ]_vars

C27_Witness ==
    /\ rpc = "run"
    /\ lastEdge.outcome = "added"
    /\ lastEdge.constraint = "*"
    /\ parent.Dependencies[lastEdge.name] = <<VersionString(MaxVer)>>
    /\ \E e \in 1..Len(parent.Errors) :
           parent.Errors[e] = "no matching version for b"

RECURSIVE Close(_, _)
Close(S, k) ==
    IF k = 0 THEN S
    ELSE Close(S \cup UNION {DOMAIN pkgDeps[n] : n \in S}, k - 1)

\* the packages the resolution may look at: the root's dependencies, the
\* root's devDependencies if the caller asked for them, and what is
\* reached from these through dependencies
Considered ==
    Close(DOMAIN pkgDeps[RootName] \cup
              (IF alsoDev THEN DOMAIN pkgDevDeps[RootName] ELSE {}),
          Cardinality(Pkgs))

\* C28: devDependencies are followed only for the root and only on the
\* uploaded-file path (alsoDev).  The root's call asks for its
\* dependencies, and for its devDependencies exactly when alsoDev; every
\* recursive call asks for the child's dependencies only; so no package
\* that is reached only through another devDependencies map is fetched
\* or listed.
C28_DevDependenciesOnlyForRoot ==
    /\ [](rpc # "idle" =>
            \A n \in Pkgs :
                (fetches[n] > 0 \/ n \in DOMAIN parent.Dependencies) =>
                    n \in Considered)
    /\ [][/\ (rpc = "idle" /\ rpc' = "run") =>
                LET asked == Cardinality(DOMAIN pkgDeps[RootName]) +
                                 (IF alsoDev
                                  THEN Cardinality(DOMAIN pkgDevDeps[RootName])
                                  ELSE 0)
                IN IF asked = 0 THEN stack' = <<>>
                   ELSE /\ Len(stack'[1].edges) = asked
                        /\ FrameNames(stack'[1]) =
                               DOMAIN pkgDeps[RootName] \cup
                               (IF alsoDev THEN DOMAIN pkgDevDeps[RootName]
                                ELSE {})
          /\ expansions' = expansions + 1 =>
                LET child == lastEdge'.name IN
                IF pkgDeps[child] = EmptyMap
                THEN Len(stack') = Len(stack) /\ fetches' = fetches
                ELSE /\ Len(stack') = Len(stack) + 1
                     /\ FrameNames(stack'[Len(stack')]) = DOMAIN pkgDeps[child]
                     /\ Len(stack'[Len(stack')].edges) =
                            Cardinality(DOMAIN pkgDeps[child])
       ]_vars

C28_Witness ==
    /\ alsoDev
    /\ rpc = "done"
    /\ \E n \in DOMAIN pkgDevDeps[RootName] \ DOMAIN pkgDeps[RootName] :
           /\ n \in DOMAIN parent.Dependencies
           /\ \E o \in DOMAIN pkgDevDeps[n] : fetches[o] = 0

\* C29: a Dependencies[name] list that is present is never empty and
\* holds no version string twice, and the recursion into a child's
\* dependencies has run exactly once for every (name, version) entry of
\* the map: it runs in the step that adds the entry and in no other.
C29_OneExpansionPerEntry ==
    /\ [](\A n \in DOMAIN parent.Dependencies :
            LET list == parent.Dependencies[n] IN
            /\ Len(list) >= 1
            /\ Cardinality({list[j] : j \in 1..Len(list)}) = Len(list))
    /\ [](expansions = TotalVersions(parent.Dependencies))
    /\ [][expansions' # expansions =>
            \/ rpc = "idle" /\ expansions' = 0
            \/ /\ expansions' = expansions + 1
               /\ lastEdge'.outcome = "added"
               /\ Len(VersionsOf(parent', lastEdge'.name)) =
                      Len(VersionsOf(parent, lastEdge'.name)) + 1
       ]_vars

C29_Witness ==
    /\ rpc = "done"
    /\ expansions >= 3
    /\ \E n \in DOMAIN parent.Dependencies : Len(parent.Dependencies[n]) = 2
    /\ \E n \in DOMAIN parent.Dependencies : Len(parent.Dependencies[n]) = 1

\* the (package name, version) pairs of the registry
Pairs == Pkgs \X Published

\* the pairs listed in the aggregate's Dependencies map
Listed(par) ==
    {q \in Pairs : strArrContain(VersionsOf(par, q[1]), q[2])}

\* C30: on a finite registry, cycles included, the resolution terminates.
\* Every recursive expansion comes with a pair (name, version) that was
\* not in the Dependencies map and is from then on, so there are at most
\* as many expansions as pairs in the registry; and every other step of
\* the walk uses up a sibling of an open call or returns from one.
C30_ExpansionsBoundedByPairs ==
    /\ [](expansions <= Cardinality(Pairs))
    /\ [][rpc = "run" =>
            /\ Listed(parent) \subseteq Listed(parent')
            /\ IF expansions' = expansions + 1
               THEN Cardinality(Listed(parent')) =
                        Cardinality(Listed(parent)) + 1
               ELSE /\ expansions' = expansions
                    /\ Listed(parent') = Listed(parent)
                    /\ \/ rpc' # "run"
                       \/ EdgesLeft(stack') + Len(stack') <
                              EdgesLeft(stack) + Len(stack)
       ]_vars

C30_Witness ==
    /\ rpc = "done"
    /\ "a" \in DOMAIN parent.Dependencies
    /\ expansions = Cardinality(Listed(parent))
    /\ expansions >= 4

(***************************************************************************)
(* Properties of the root request, the correlator's skips and the sums.    *)
(***************************************************************************)
\* the version the request names is not in the package's metadata
RootUnresolvable ==
    LET p == PackageInfo(RootName) IN
    IF versionRaw # "" THEN versionRaw \notin DOMAIN p.Versions
    ELSE p.DistTags.Latest \notin DOMAIN p.Versions

\* C34: a request whose root version cannot be resolved (an exact version
\* that is no key of the package's versions, or "" with a latest tag that
\* names no published version) ends in an error and builds no tree.
C34_UnresolvableRootFails ==
    RootUnresolvable => rpc \in {"idle", "failed"}

\* the string is a version semver can parse / a range semver can parse
ParsesAsVersion(vRaw) == \E i \in 1..(MaxVer + 1) : vRaw = VersionString(i)

ParsesAsRange(expr) ==
    \/ expr = "*"
    \/ \E i \in 1..(MaxVer + 1) :
           expr \in {"^" \o VersionString(i), "<" \o VersionString(i)}

\* the vulnerability has a range, or its package an installed version, that
\* does not parse
HasMalformed(vulnerability) ==
    \/ \E j \in 1..Len(vulnerability.Semver.Vulnerable) :
           ~ParsesAsRange(vulnerability.Semver.Vulnerable[j])
    \/ \E vRaw \in Installed(vulnerability.PackageName) : ~ParsesAsVersion(vRaw)

\* C35: an installed version or a vulnerable range that does not parse
\* never makes GatherVulnerabilities fail (only the query can), and a
\* vulnerability that has one is still reported exactly when one of its
\* ranges that parse contains an installed version that parses.
C35_MalformedIsSkipped ==
    /\ [][rpc = "vuln" /\ ~vulnQuery'.err => rpc' = "done"]_vars
    /\ [](rpc = "done" =>
            \A k \in 1..Len(VulnerabilityRows) :
                HasMalformed(VulnerabilityRows[k]) =>
                    Occurrences(parent.Vulnerabilities, VulnerabilityRows[k])
                      = IF Affected(VulnerabilityRows[k]) THEN 1 ELSE 0)

C35_Witness ==
    /\ rpc = "done"
    /\ parent.Info.Version = Malformed
    /\ parent.Info.Name = RootName
    /\ HasMalformed(VulnerabilityRows[1])
    /\ Occurrences(parent.Vulnerabilities, VulnerabilityRows[1]) = 0
    /\ HasMalformed(VulnerabilityRows[5])
    /\ Occurrences(parent.Vulnerabilities, VulnerabilityRows[5]) = 1

RECURSIVE SumOver(_, _)
SumOver(S, f) ==
    IF S = {} THEN 0
    ELSE LET x == CHOOSE y \in S : TRUE IN f[x] + SumOver(S \ {x}, f)

\* the (name, version) entries of the Dependencies map
Entries(par) ==
    UNION {{<<n, par.Dependencies[n][j]>> : j \in 1..Len(par.Dependencies[n])} :
              n \in DOMAIN par.Dependencies}

\* C36: after a resolution Files is the root's file count plus the file
\* counts the registry gives for the (name, version) entries of the
\* Dependencies map, DiskSpace the same sum of unpacked sizes, and the
\* counts of the Publishers histogram add up to Stats.Versions when the
\* root has a publisher and to Stats.Versions - 1 when it has none.
C36_StatsAreSums ==
    rpc \in {"vuln", "done"} =>
        LET files == [e \in Entries(parent) |->
                         FileCountOf(e[1], semverNewVersion(e[2]))]
            sizes == [e \in Entries(parent) |->
                         100 * FileCountOf(e[1], semverNewVersion(e[2]))]
        IN /\ parent.Stats.Files
                = parent.Info.Dist.FileCount + SumOver(Entries(parent), files)
           /\ parent.Stats.DiskSpace
                = parent.Info.Dist.UnpackedSize + SumOver(Entries(parent), sizes)
           /\ SumOver(DOMAIN parent.Publishers, parent.Publishers)
                = IF GetPublisher(parent.Info) # ""
                  THEN parent.Stats.Versions ELSE parent.Stats.Versions - 1

C36_Witness ==
    /\ rpc = "done"
    /\ GetPublisher(parent.Info) = ""
    /\ parent.Info.Name = RootName
    /\ \E n \in DOMAIN parent.Dependencies : Len(parent.Dependencies[n]) = 2
    /\ "" \in DOMAIN parent.Publishers
    /\ parent.Stats.Versions >= 4

\* C37: the Publishers histogram has no entry for the empty string.
C37_NoEmptyPublisher ==
    "" \notin DOMAIN parent.Publishers

(***************************************************************************)
(* Properties of the uploaded-file pool.                                   *)
(***************************************************************************)
\* the names the upload asks to resolve, dev-dependencies included
UploadedNames ==
    DOMAIN UploadedInfo.Dependencies \cup DOMAIN UploadedInfo.DevDependencies

\* C31: Get returns the stored file exactly when it has a resolved
\* dependency or no direct dependency, so (1) a skeleton that has names to
\* resolve and for which Perform has not run is never returned as a cache
\* hit, and (2) once Perform and Put have run, Get returns the resolved
\* tree.
C31_ReadyMeansResolved ==
    /\ FilePerformerGet # <<>> <=>
          /\ fileRow # <<>>
          /\ \/ DOMAIN fileRow[1].Dependencies # {}
             \/ DOMAIN fileRow[1].Info.Dependencies = {}
    /\ (served.src = "cache" /\ fileFuture.state # "resolved") =>
          UploadedNames = {}
    /\ (rpc = "done" /\ fpc \in {"finish", "idle"} /\ fileRow = <<parent>>) =>
          FilePerformerGet = <<parent>>

\* C32: a tree GetFile returns for an upload that has devDependencies has
\* been through Perform (alsoDev = true) before.
C32_DevDependenciesResolvedBeforeServed ==
    (served.result.Data # <<>> /\ DOMAIN UploadedInfo.DevDependencies # {}) =>
        fileFuture.state = "resolved"

\* C33: a tree a compute has produced has been through
\* GatherVulnerabilities before it is stored and delivered to the waiters.
C33_AnnotatedBeforeDelivered ==
    (fpc \in {"finish", "idle"} /\ rpc = "done") => vulnQuery # NoQuery

(***************************************************************************)
(* Properties of the vulnerability update.                                 *)
(***************************************************************************)
\* the records of the pages before page p
RecordsBefore(p) ==
    UNION {{FeedPage(q)[j] : j \in 1..Len(FeedPage(q))} : q \in 1..(p - 1)}

\* how far the run is: grows with every page and every record
FeedPos ==
    IF upc = "records" THEN page * (PageSize + 1) + idx
    ELSE page * (PageSize + 1)

InRun == upc \in {"fetch", "records"}

\* C38: a run over the finite feed requests the pages 1, 2, 3, ... in
\* order and never more than one past the last page; it returns only at
\* the first empty page, at the first record whose id is the latest known
\* one, or at a failed fetch; every record before that point has been
\* passed to DbPutVulnerability; a put that fails does not end the run;
\* and every step of the run moves it forward, so that it terminates.
C38_UpdateRunTerminates ==
    /\ [](/\ \A j \in 1..Len(requested) : requested[j] = j
          /\ Len(requested) <= NumPages + 1
          /\ FeedPos <= (NumPages + 1) * (PageSize + 1)
          /\ upc = "fetch" =>
                /\ Len(requested) = page - 1
                /\ putTried = RecordsBefore(page)
          /\ upc = "records" =>
                /\ Len(requested) = page
                /\ vulnPage = FeedPage(page)
                /\ idx \in 1..Len(vulnPage)
                /\ putTried = RecordsBefore(page)
                                \cup {vulnPage[j] : j \in 1..(idx - 1)}
          /\ InRun => lastKnown \notin putTried
          /\ InRun => ENABLED (GetVulnerabilities \/ PutRecord))
    /\ [][/\ (InRun /\ InRun') => FeedPos' > FeedPos
          /\ (InRun /\ ~InRun') =>
                /\ putTried' = putTried
                /\ \/ stop' \in {"error", "status"} /\ upc = "fetch"
                   \/ /\ stop' = "empty"
                      /\ upc = "fetch"
                      /\ FeedPage(page) = <<>>
                      /\ \A q \in 1..(page - 1) : FeedPage(q) # <<>>
                   \/ /\ stop' = "known"
                      /\ upc = "records"
                      /\ lastKnown # 0
                      /\ vulnPage[idx] = lastKnown
          /\ (upc = "records" /\ ~(lastKnown # 0 /\ vulnPage[idx] = lastKnown)) =>
                /\ InRun'
                /\ putTried' = putTried \cup {vulnPage[idx]}
       ]_vars

C38_Witness ==
    /\ upc = "idle"
    /\ stop = "known"
    /\ Len(requested) = 2
    /\ putFailed
    /\ putTried = RecordsBefore(2)
    /\ vulnDb # {}

\* C39: with the feed newest first and no put ever failing, a run that
\* returns without a fetch error (at the empty page or at the known
\* record) leaves every record of the feed in the table, whatever runs
\* were aborted by fetch errors before it.
C39_CompletedRunStoresAll ==
    (upc = "idle" /\ stop \in {"empty", "known"} /\ ~putFailed) =>
        vulnDb = Records

(***************************************************************************)
(* Properties of the expiry sweep.                                         *)
(***************************************************************************)
\* C40: rows of packages and versions disappear only in the sweep's two
\* DELETEs, each of which removes from its table exactly the rows whose
\* expire_time is earlier than the sweep's now and changes no other table;
\* the files row and the vulnerability rows are never removed.
C40_SweepRemovesExactlyExpired ==
    [][/\ \A k \in Keys :
             /\ (packageRows[k] # 0 /\ packageRows'[k] # packageRows[k]) =>
                   /\ spc = "idle" /\ spc' = "versions"
                   /\ packageRows[k] < sweepNow'
                   /\ packageRows'[k] = 0
             /\ (versionRows[k] # 0 /\ versionRows'[k] # versionRows[k]) =>
                   /\ spc = "versions" /\ spc' = "idle"
                   /\ versionRows[k] < sweepNow
                   /\ versionRows'[k] = 0
       /\ (spc = "idle" /\ spc' = "versions") =>
             /\ sweepNow' = clock
             /\ \A k \in Keys :
                    (packageRows[k] # 0 /\ packageRows[k] < clock) =>
                        packageRows'[k] = 0
             /\ versionRows' = versionRows
       /\ (spc = "versions" /\ spc' = "idle") =>
             /\ sweepNow' = sweepNow
             /\ \A k \in Keys :
                    (versionRows[k] # 0 /\ versionRows[k] < sweepNow) =>
                        versionRows'[k] = 0
             /\ packageRows' = packageRows
       /\ fileRow # <<>> => fileRow' = fileRow
       /\ vulnDb \subseteq vulnDb'
      ]_vars

C40_Witness ==
    /\ spc = "idle"
    /\ removed = {"packages", "versions"}
    /\ \E k \in Keys : packageRows[k] = 0
    /\ \E k \in Keys : packageRows[k] = sweepNow
    /\ fileRow # <<>>
    /\ vulnDb = Records

(***************************************************************************)
(* Properties of the expiry policy.                                        *)
(***************************************************************************)
Age == now - lastUpdate

ExpireIn == expireTime - now

\* C16 as stated: ages of 10 minutes, 10 hours and 30 days give expiry
\* durations of 1 hour, about age/100 (within a minute of it) and 24 hours.
C16_ExpiryExamples ==
    epc = "done" =>
        /\ Age = AgeStep => ExpireIn = Hour
        /\ Age = 10 * Hour =>
              /\ 100 * (ExpireIn - 60) <= Age
              /\ Age <= 100 * (ExpireIn + 60)
        /\ Age = 30 * 24 * Hour => ExpireIn = 24 * Hour

\* C16 amended: ages of 10 minutes, 10 hours and 30 days give expiry
\* durations of 1 hour, 1 hour (age/100 is 6 minutes, below the minimum)
\* and age/100 = 7.2 hours; 24 hours is given from an age of 100 days on.
C16_ExpiryExamplesAmended ==
    epc = "done" =>
        /\ Age = AgeStep => ExpireIn = Hour
        /\ Age = 10 * Hour => ExpireIn = Hour
        /\ Age = 30 * 24 * Hour => 100 * ExpireIn = Age /\ 10 * ExpireIn = 72 * Hour
        /\ Age = 100 * 24 * Hour => ExpireIn = 24 * Hour

C16_Witness ==
    /\ epc = "done"
    /\ Age = 30 * 24 * Hour
    /\ ExpireIn > Hour /\ ExpireIn < 24 * Hour

\* C17: for every age, negative ones included, the expiry duration is
\* never below 1 hour nor above 24 hours; it is 1 hour when age/100 is
\* below 1 hour, 24 hours when age/100 is above 24 hours, and age/100
\* (cut to the unit of time) in between.
C17_ExpiryClamp ==
    epc = "done" =>
        /\ ExpireIn >= Hour
        /\ ExpireIn <= 24 * Hour
        /\ Age < 100 * Hour => ExpireIn = Hour
        /\ Age > 100 * 24 * Hour => ExpireIn = 24 * Hour
        /\ (Age >= 100 * Hour /\ Age <= 100 * 24 * Hour) =>
              /\ 100 * ExpireIn <= Age
              /\ Age < 100 * (ExpireIn + 1)

C17_Witness ==
    /\ epc = "done"
    /\ Age < 0
    /\ ExpireIn = Hour
    /\ now > 0

TypeOK == \A c \in Callers : pc[c] \in {"idle", "getOrCreate", "enqueue", "fanout",
                                         "await", "recv", "select", "timedout",
                                         "done"}
====
